---- MODULE Spec2Model ----
(***************************************************************************)
(* peloterm: BLE cycling telemetry.                                        *)
(*                                                                         *)
(* Components modelled, each with its own specification over its own       *)
(* group of variables (the other groups stay at their initial value):      *)
(*   SpecDP      DataProcessor (peloterm/data_processor.py), one call at   *)
(*               a time                                                    *)
(*   SpecDPConc  DataProcessor read by the web thread's update_loop while  *)
(*               the device loop writes, statement by statement            *)
(*   SpecConn    one device session (HeartRateDevice, TrainerDevice or     *)
(*               SpeedCadenceDevice): connect(), disconnect(), the BLE     *)
(*               stack's answers                                           *)
(*   SpecConnSig SpecConn with the shutdown signal arriving during         *)
(*               connect()                                                 *)
(*   SpecDisc    DeviceController.disconnect_devices at shutdown           *)
(*   SpecAdc     DeviceController.auto_discover_connect, the sessions'     *)
(*               notifications and the run loop's metric pick-up           *)
(*   SpecSeq     the order in time of the sessions' connect() calls in     *)
(*               auto_discover_connect                                     *)
(*   SpecCfg     configuration: from_dict, to_dict, load_config,           *)
(*               save_config, create_default_config_from_scan              *)
(*               (peloterm/config.py)                                      *)
(*   SpecDebug   add_debug_message of the trainer and speed/cadence        *)
(*               sessions (devices/trainer.py, devices/speed_cadence.py)   *)
(*   SpecMon     MetricMonitor (peloterm/display.py)                       *)
(*   SpecWeb     WebServer: websocket_endpoint and update_loop             *)
(*               (peloterm/web/server.py)                                  *)
(*   SpecWebQ    web mode: the sessions' callback, the metric queue and    *)
(*               its consumer (peloterm/cli.py, web/server.py)             *)
(*   SpecListen  listen_for_devices_connection (peloterm/cli.py), the      *)
(*               listening mode of the start command                       *)
(*   SpecWahoo   SpeedCadenceDevice.parse_wahoo_data                       *)
(*   SpecFind    SpeedCadenceDevice.find_device over a scan result         *)
(*   SpecBike    TrainerDevice with its metrics argument and               *)
(*               handle_indoor_bike_data                                   *)
(*   SpecCsc     SpeedCadenceDevice.handle_csc_measurement over the life   *)
(*               of a session                                              *)
(*   SpecHr      the heart-rate notification handler                       *)
(***************************************************************************)
EXTENDS Integers, Sequences, FiniteSets, TLC

(***************************************************************************)
(* Bounds of the model.                                                    *)
(***************************************************************************)
\* The wall clock runs from StartTime to MaxTime (seconds).  time.time() is
\* seconds since the epoch, so every clock value the program sees is far
\* above stale_threshold: StartTime > stale_threshold.
StartTime == 3
MaxTime == 6
\* update_metric calls started by the device loop in SpecDPConc.
MaxUpdates == 2
\* connect() calls made on one session object in SpecConn: the controller
\* constructs a fresh session for every connect (controller.py 120-124,
\* 145-149, 199-212).
MaxConnects == 1
\* SpecListen: devices in the configuration, the --timeout values tried
\* (seconds) and the seconds one connection attempt may take.
MaxDevices == 2
MaxTimeout == 3
MaxAttemptTime == 1
\* SpecSeq: the seconds one session's connect() may take.
MaxConnectTime == 2
\* SpecWebQ: samples the sessions forward.
MaxSamples == 3
\* SpecMon: update_value calls on one monitor.
MaxHistory == 3
\* SpecDebug: add_debug_message calls on one session.
MaxMessages == 102
\* SpecWeb: web clients, and passes of update_loop with metrics to send.
MaxClients == 3
MaxTicks == 2

(***************************************************************************)
(* Python dict: insertion-ordered sequence of [k, v] entries.              *)
(***************************************************************************)
DictKeys(d) == {d[i].k : i \in DOMAIN d}

DictHas(d, k) == k \in DictKeys(d)

DictGet(d, k) == d[CHOOSE i \in DOMAIN d : d[i].k = k].v

DictSet(d, k, v) ==
  IF DictHas(d, k)
    THEN [i \in DOMAIN d |-> IF d[i].k = k THEN [k |-> k, v |-> v] ELSE d[i]]
    ELSE Append(d, [k |-> k, v |-> v])

(***************************************************************************)
(* Values.  A numeric value is held in hundredths of its unit; None and a  *)
(* non-numeric string are the two non-numeric inputs.                      *)
(***************************************************************************)
Num(n) == [tag |-> "num", n |-> n]
NoneValue == [tag |-> "none", n |-> 0]
StrValue == [tag |-> "str", n |-> 0]

Kinds == {"cadence", "power", "speed"}

\* 25.75 (exactly representable as a float), None, "abc"
InputValues == {Num(2575), NoneValue, StrValue}

\* Python round(): round half to even, to a multiple of m hundredths.
RoundHalfEven(x, m) ==
  LET q == x \div m
      r == x % m
  IN  IF 2 * r < m THEN q * m
      ELSE IF 2 * r > m THEN (q + 1) * m
      ELSE IF q % 2 = 0 THEN q * m ELSE (q + 1) * m

\* float(value): raises TypeError for None, ValueError for "abc".
FloatRaises(value) == value.tag # "num"
FloatError(value) == IF value.tag = "none" THEN "TypeError" ELSE "ValueError"

stale_threshold == 2

VARIABLES
  \* wall clock
  now,
  \* DataProcessor fields
  current_values, last_update_time,
  \* get_processed_metrics: its locals and return value
  current_time, processed_metrics,
  \* the call that ran last, and whether it raised
  dp_op, dp_raised,
  \* history: per kind, the last completed update_metric call
  last_completed,
  \* reader (update_loop) and writer (device loop) positions in SpecDPConc
  rd_pc, rd_iter, rd_item, wr_pc, wr_call, wr_count,
  \* history: the two dicts as they were when the last update_metric call
  \* returned, and at every call boundary since the last read began
  dp_last_boundary, dp_boundaries,
  \* the session object: its class, constructor argument and fields
  cls, device_name, device, cached_device, client, active_notifications,
  available_metrics,
  \* connect(): position, loop variable, services of the current link,
  \* return value ("none" while running, "raised" for an exception)
  pc, attempt, services, result,
  \* disconnect(): how the last call ended
  disc_result,
  \* the BLE stack: BleakClient objects created, links that are open,
  \* notifications enabled (client, characteristic), and how the link-open
  \* calls of the running connect() will end
  clients_made, open_links, subscriptions, link_plan,
  \* history of the running connect(): its link-open attempts, the backoff
  \* slept since the previous one, the clients made before the call, whether
  \* anything but a link-open failed, and the number of calls
  attempt_log, backoff_waited, call_first, other_fault, connects,
  \* DeviceController: its three device fields, the running flag, the
  \* disconnect coroutines handed to gather by each call of
  \* disconnect_devices, the position of the running call and its call site
  devices, running, tasks, dd_pc, dd_caller,
  \* SpeedCadenceDevice: _last_crank_time, _last_crank_revs; whether the
  \* session is connected and how many CSC payloads it got since connect();
  \* the last payload handled: well-formed or not, the cadence forwarded to
  \* data_callback, whether the handler raised
  last_crank_time, last_crank_revs, csc_link, csc_since_connect,
  csc_kind, csc_emitted, csc_raised,
  \* history: raw crank fields of the last two payloads, whether every payload
  \* so far was well-formed, and the decoder fields and the sample the same
  \* code yields on the well-formed payloads alone
  csc_cur, csc_prev, csc_clean, shadow_time, shadow_revs, shadow_emitted,
  \* HeartRateDevice: current_value; the last payload handled, the sample
  \* forwarded for it, whether the handler raised
  current_value, hr_payload, hr_emitted, hr_raised,
  \* auto_discover_connect: its arguments and the scan result; its position
  \* and return value; per class the scanned device its session was built
  \* for (0: field is None); the controller's connected_devices and
  \* available_metrics; each session's available_metrics
  device_types, device_names, metric_types, scanned, adc_pc, adc_result,
  bound, connected_devices, ctl_available_metrics, sess_metrics,
  \* history: the kinds each session has emitted from decoded data
  emitted,
  \* the keys of the controller's metric_monitors
  metric_monitors

dpVars == <<now, current_values, last_update_time, current_time,
            processed_metrics, dp_op, dp_raised, last_completed>>
dpConcVars == <<rd_pc, rd_iter, rd_item, wr_pc, wr_call, wr_count,
                dp_last_boundary, dp_boundaries>>

connVars == <<cls, device_name, device, cached_device, client, active_notifications,
              available_metrics, pc, attempt, services, result, disc_result,
              clients_made, open_links, subscriptions, link_plan,
              attempt_log, backoff_waited, call_first, other_fault, connects>>

ctlVars == <<devices, running, tasks, dd_pc, dd_caller>>

cscVars == <<last_crank_time, last_crank_revs, csc_link, csc_since_connect,
             csc_kind, csc_emitted, csc_raised, csc_cur, csc_prev, csc_clean,
             shadow_time, shadow_revs, shadow_emitted>>

hrVars == <<current_value, hr_payload, hr_emitted, hr_raised>>

adcVars == <<device_types, device_names, metric_types, scanned, adc_pc, adc_result,
             bound, connected_devices, ctl_available_metrics, sess_metrics,
             emitted, metric_monitors>>

VARIABLES
  \* listen_for_devices_connection: position, len(config.devices), timeout,
  \* current_time - start_time, connected_count, the flag, the return value
  lis_pc, total_devices, timeout, elapsed, connected_count, shutdown_event,
  lis_result,
  \* configured devices in controller.connected_devices
  lis_connected,
  \* history: connection attempts started
  lis_attempts

lisVars == <<lis_pc, total_devices, timeout, elapsed, connected_count,
             shutdown_event, lis_result, lis_connected, lis_attempts>>

VARIABLES
  \* parse_wahoo_data: the frame handled last, the values it passed to
  \* data_callback in order, current_values["cadence"]
  wahoo_frame, wahoo_forwarded, wahoo_current

wahooVars == <<wahoo_frame, wahoo_forwarded, wahoo_current>>

VARIABLES
  \* TrainerDevice: whether it is constructed, the metrics argument, the
  \* fields metrics and available_metrics; the fields of the payload
  \* handled last and the kinds it passed to data_callback
  tb_pc, tb_arg, tb_metrics, tb_available, tb_fields, tb_forwarded

tbVars == <<tb_pc, tb_arg, tb_metrics, tb_available, tb_fields, tb_forwarded>>

VARIABLES
  \* SpeedCadenceDevice.find_device: device_name of the session, what the
  \* scan discovered (in its order), the place of the device returned (0
  \* for None)
  fd_name, fd_scan, fd_found

fdVars == <<fd_name, fd_scan, fd_found>>

VARIABLES
  \* auto_discover_connect in time: the branch it is at, seconds since the
  \* scan returned, per class whether a device was selected, where its
  \* connect() is, and when it was called
  seq_pc, seq_clock, seq_found, seq_state, seq_begun

seqVars == <<seq_pc, seq_clock, seq_found, seq_state, seq_begun>>

VARIABLES
  \* web mode: samples forwarded so far (history, in callback order), the
  \* put coroutines the event loop has still to run, the metric queue, the
  \* update_metric calls made, the shutdown flag
  wq_forwarded, wq_ready, metric_queue, wq_applied, wq_shutdown

wqVars == <<wq_forwarded, wq_ready, metric_queue, wq_applied, wq_shutdown>>

VARIABLES
  \* MetricMonitor: values, timestamps, current_value; the clock
  \* datetime.now() reads; history: the values passed to update_value
  mon_values, mon_timestamps, mon_current_value, mon_now, mon_passed

monVars == <<mon_values, mon_timestamps, mon_current_value, mon_now, mon_passed>>

VARIABLES
  \* configuration: what was done last, the scan result or dictionary the
  \* configuration was made from, the configuration, and the configuration
  \* read back from its dictionary or file
  cfg_pc, cfg_input, cfg_config, cfg_again

cfgVars == <<cfg_pc, cfg_input, cfg_config, cfg_again>>

VARIABLES
  \* per session class with a debug log: debug_messages; history: the
  \* number of add_debug_message calls (a message is its arrival number)
  debug_messages, dbg_added

dbgVars == <<debug_messages, dbg_added>>

VARIABLES
  \* WebServer: active_connections, metrics_history (an entry is its
  \* timestamp, the number of the pass that made it)
  active_connections, metrics_history,
  \* websocket_endpoint per client: its position; the list object its
  \* replay loop walks, whether that object is still self.metrics_history,
  \* and the index of the next entry
  ws_state, ws_list, ws_shared, ws_pos,
  \* update_loop: its position, the number of passes begun, the size of
  \* active_connections when the for loop began, the connections the loop
  \* has taken, the one being sent to, and its local set disconnected
  upd_pc, upd_msg, upd_size, upd_visited, upd_cur, disconnected,
  \* history: what each client received in order, metrics_history as it was
  \* when the client connected, the clients in active_connections all
  \* through the running pass, and the last finished pass: its message, the
  \* clients that stayed and are up, those whose send failed, those line 148
  \* removed, and active_connections as the pass left it
  ws_received, ws_known, upd_stayed, tick_log

wsVars == <<active_connections, metrics_history, ws_state, ws_list, ws_shared,
            ws_pos, upd_pc, upd_msg, upd_size, upd_visited, upd_cur, disconnected,
            ws_received, ws_known, upd_stayed, tick_log>>

\* the groups of the handlers and helpers modelled further down
handlerVars == <<wahooVars, tbVars, fdVars, seqVars, wqVars>>
outerVars == <<monVars, cfgVars, dbgVars, wsVars>>
laterVars == <<handlerVars, outerVars>>

vars == <<dpVars, dpConcVars, connVars, ctlVars, cscVars, hrVars, adcVars, lisVars,
          laterVars>>

\* What each component's actions leave alone.
OtherThanDP == <<connVars, ctlVars, cscVars, hrVars, adcVars, lisVars, laterVars>>
OtherThanConn == <<dpVars, dpConcVars, ctlVars, cscVars, hrVars, adcVars, lisVars, laterVars>>
OtherThanCtl == <<dpVars, dpConcVars, connVars, cscVars, hrVars, adcVars, lisVars, laterVars>>
OtherThanCsc == <<dpVars, dpConcVars, connVars, ctlVars, hrVars, adcVars, lisVars, laterVars>>
OtherThanHr == <<dpVars, dpConcVars, connVars, ctlVars, cscVars, adcVars, lisVars, laterVars>>
OtherThanAdc == <<dpVars, dpConcVars, connVars, ctlVars, cscVars, hrVars, lisVars, laterVars>>
OtherThanListen == <<dpVars, dpConcVars, connVars, ctlVars, cscVars, hrVars, adcVars, laterVars>>
Earlier == <<dpVars, dpConcVars, connVars, ctlVars, cscVars, hrVars, adcVars, lisVars>>
OtherThanWahoo == <<Earlier, tbVars, fdVars, seqVars, wqVars, outerVars>>
OtherThanBike == <<Earlier, wahooVars, fdVars, seqVars, wqVars, outerVars>>
OtherThanFind == <<Earlier, wahooVars, tbVars, seqVars, wqVars, outerVars>>
OtherThanSeq == <<Earlier, wahooVars, tbVars, fdVars, wqVars, outerVars>>
OtherThanWebQ == <<Earlier, wahooVars, tbVars, fdVars, seqVars, outerVars>>
OtherThanMon == <<Earlier, handlerVars, cfgVars, dbgVars, wsVars>>
OtherThanCfg == <<Earlier, handlerVars, monVars, dbgVars, wsVars>>
OtherThanDebug == <<Earlier, handlerVars, monVars, cfgVars, wsVars>>
OtherThanWeb == <<Earlier, handlerVars, monVars, cfgVars, dbgVars>>

(***************************************************************************)
(* DataProcessor.__init__                                                  *)
(***************************************************************************)
InitDP ==
  /\ now = StartTime
  /\ current_values = <<>>
  /\ last_update_time = <<>>
  /\ current_time = 0
  /\ processed_metrics = <<>>
  /\ dp_op = "init"
  /\ dp_raised = "no"
  /\ last_completed = <<>>

InitDPConc ==
  /\ rd_pc = "idle"
  /\ rd_iter = [used |-> 0, pos |-> 0]
  /\ rd_item = [k |-> "", v |-> NoneValue]
  /\ wr_pc = "idle"
  /\ wr_call = [k |-> "", v |-> NoneValue]
  /\ wr_count = 0
  /\ dp_last_boundary = [cv |-> <<>>, lut |-> <<>>]
  /\ dp_boundaries = {}

(***************************************************************************)
(* Device sessions.                                                        *)
(***************************************************************************)
Classes == {"heart_rate", "trainer", "speed_cadence"}

\* speed_cadence.py lines 60-62
max_connection_attempts == 3
connection_retry_delay == 1

\* The scanned device by what connect() reads of it: its name holds "wahoo",
\* it has another name, or it has no name (device.name is None).
DeviceKinds == {"wahoo", "plain", "unnamed"}

\* How one awaited link-open ends: link up; asyncio.TimeoutError; another
\* exception; returned with is_connected False.
LinkOutcomes == {"ok", "timeout", "error", "down"}

\* Notify/indicate characteristics a speed/cadence device may expose.
NotifyChars == {"csc", "other"}

NoServices == [found |-> FALSE, notify |-> {}]

\* __init__ of the three classes
InitSession(c, named) ==
  /\ cls = c
  /\ device_name = named
  /\ device = "none"
  /\ cached_device = "none"
  /\ client = 0
  /\ active_notifications = {}
  /\ available_metrics = <<>>
  /\ pc = "idle"
  /\ attempt = 0
  /\ services = NoServices
  /\ result = "none"
  /\ disc_result = "none"
  /\ clients_made = 0
  /\ open_links = {}
  /\ subscriptions = {}
  /\ link_plan = <<>>
  /\ attempt_log = <<>>
  /\ backoff_waited = 0
  /\ call_first = 0
  /\ other_fault = FALSE
  /\ connects = 0

\* The controller names every session it creates (controller.py 120-123,
\* 145-148, 199-202); a speed/cadence session may also be unnamed.
InitConn ==
  \E c \in Classes, named \in BOOLEAN :
    /\ (c # "speed_cadence" => named)
    /\ InitSession(c, named)

\* No session constructed.
NoSession == InitSession("none", FALSE)

(***************************************************************************)
(* DeviceController at shutdown                                            *)
(***************************************************************************)
\* start_auto_monitoring calls disconnect_devices through run()'s finally
\* (controller.py 339) and again in its own finally (400-405).
CallSites == {"run", "finally"}

\* A controller device field: None, a session whose client has an open
\* link, or a session without one (never connected, failed, or closed).
DeviceStates == {"none", "linked", "unlinked"}

TaskStates == {"none", "pending", "awaiting", "hung", "done", "raised"}

NoTasks == [c \in Classes |-> "none"]

\* The controller when the monitoring loop ends: any combination of device
\* fields (they are assigned before connect() and kept when it fails,
\* controller.py 120-124, 145-149, 199-212); run() has set running, or the
\* program was interrupted before run().
InitCtl ==
  /\ devices \in [Classes -> DeviceStates]
  /\ dd_caller \in CallSites
  /\ running = (dd_caller = "run")
  /\ tasks = [s \in CallSites |-> NoTasks]
  /\ dd_pc = "idle"

NoController ==
  /\ devices = [c \in Classes |-> "none"]
  /\ dd_caller = "exited"
  /\ running = FALSE
  /\ tasks = [s \in CallSites |-> NoTasks]
  /\ dd_pc = "idle"

(***************************************************************************)
(* Notification decoders                                                   *)
(***************************************************************************)
\* SpeedCadenceDevice.__init__, speed_cadence.py 49-54; not yet connected
InitCsc ==
  /\ last_crank_time = NoneValue
  /\ last_crank_revs = NoneValue
  /\ csc_link = "down"
  /\ csc_since_connect = 0
  /\ csc_kind = "none"
  /\ csc_emitted = NoneValue
  /\ csc_raised = FALSE
  /\ csc_cur = NoneValue
  /\ csc_prev = NoneValue
  /\ csc_clean = TRUE
  /\ shadow_time = NoneValue
  /\ shadow_revs = NoneValue
  /\ shadow_emitted = NoneValue

\* HeartRateDevice.__init__, heart_rate.py 25-30
InitHr ==
  /\ current_value = NoneValue
  /\ hr_payload = <<>>
  /\ hr_emitted = NoneValue
  /\ hr_raised = FALSE

\* DeviceController.__init__ (controller.py 33-42) before
\* auto_discover_connect is called; no session exists yet.
InitAdc ==
  /\ device_types = {}
  /\ device_names = {}
  /\ metric_types = {}
  /\ scanned = <<>>
  /\ adc_pc = "idle"
  /\ adc_result = "none"
  /\ bound = [c \in Classes |-> 0]
  /\ connected_devices = <<>>
  /\ ctl_available_metrics = <<>>
  /\ sess_metrics = [c \in Classes |-> <<>>]
  /\ emitted = [c \in Classes |-> {}]
  /\ metric_monitors = {}

\* Every component but the one a specification is about, as constructed.
\* Before listen_for_devices_connection is called: the flag is new
\* (cli.py 117), nothing is connected.
InitListen ==
  /\ lis_pc = "idle"
  /\ total_devices = 0
  /\ timeout = 0
  /\ elapsed = 0
  /\ connected_count = 0
  /\ shutdown_event = FALSE
  /\ lis_result = "none"
  /\ lis_connected = {}
  /\ lis_attempts = 0

\* SpeedCadenceDevice.__init__ (speed_cadence.py 41-45): no cadence yet
InitWahoo ==
  /\ wahoo_frame = <<>>
  /\ wahoo_forwarded = <<>>
  /\ wahoo_current = NoneValue

\* The metrics argument of TrainerDevice: None, or a list (the set of its
\* elements).
NoMetricsArg == [given |-> FALSE, list |-> {}]

\* No TrainerDevice constructed.
InitBike ==
  /\ tb_pc = "none"
  /\ tb_arg = NoMetricsArg
  /\ tb_metrics = {}
  /\ tb_available = <<>>
  /\ tb_fields = {}
  /\ tb_forwarded = {}

\* find_device not called yet
InitFind ==
  /\ fd_name = "None"
  /\ fd_scan = <<>>
  /\ fd_found = 0

\* auto_discover_connect not called yet
InitSeq ==
  /\ seq_pc = 0
  /\ seq_clock = 0
  /\ seq_found = {}
  /\ seq_state = [c \in Classes |-> "pending"]
  /\ seq_begun = [c \in Classes |-> 0]

\* cli.py 201-233: metric_queue = asyncio.Queue(), the consumer task
\* started, the callback installed
InitWebQ ==
  /\ wq_forwarded = <<>>
  /\ wq_ready = <<>>
  /\ metric_queue = <<>>
  /\ wq_applied = <<>>
  /\ wq_shutdown = FALSE

\* MetricMonitor.__init__ (display.py 26-32)
InitMon ==
  /\ mon_values = <<>>
  /\ mon_timestamps = <<>>
  /\ mon_current_value = 0
  /\ mon_now = 0
  /\ mon_passed = <<>>

NoConfig == [devices |-> <<>>, display |-> <<>>]

\* no configuration made yet
InitCfg ==
  /\ cfg_pc = "start"
  /\ cfg_input = [kind |-> "none", scan |-> <<>>, data |-> NoConfig]
  /\ cfg_config = NoConfig
  /\ cfg_again = NoConfig

\* the session classes that keep a debug log
DebugClasses == {"trainer", "speed_cadence"}

\* self.debug_messages = [] (trainer.py 43, speed_cadence.py 38)
InitDebug ==
  /\ debug_messages = [c \in DebugClasses |-> <<>>]
  /\ dbg_added = [c \in DebugClasses |-> 0]

WebClients == 1..MaxClients

NoTick == [msg |-> 0, expected |-> {}, failed |-> {}, removed |-> {}, kept |-> {}]

\* WebServer.__init__ (server.py 16-26) and the start of update_loop (32)
InitWeb ==
  /\ active_connections = {}
  /\ metrics_history = <<>>
  /\ ws_state = [c \in WebClients |-> "new"]
  /\ ws_list = [c \in WebClients |-> <<>>]
  /\ ws_shared = [c \in WebClients |-> FALSE]
  /\ ws_pos = [c \in WebClients |-> 0]
  /\ upd_pc = "sleep"
  /\ upd_msg = 0
  /\ upd_size = 0
  /\ upd_visited = {}
  /\ upd_cur = 0
  /\ disconnected = {}
  /\ ws_received = [c \in WebClients |-> <<>>]
  /\ ws_known = [c \in WebClients |-> <<>>]
  /\ upd_stayed = {}
  /\ tick_log = NoTick

Rest ==
  /\ InitCsc /\ InitHr /\ InitAdc /\ InitListen
  /\ InitWahoo /\ InitBike /\ InitFind /\ InitSeq /\ InitWebQ
  /\ InitMon /\ InitCfg /\ InitDebug /\ InitWeb

Init == InitDP /\ InitDPConc /\ NoSession /\ NoController /\ Rest

InitC == InitDP /\ InitDPConc /\ InitConn /\ NoController /\ Rest

InitD == InitDP /\ InitDPConc /\ NoSession /\ InitCtl /\ Rest

(***************************************************************************)
(* update_metric, lines 22-30: the value after rounding, or the exception  *)
(* that leaves the method.                                                 *)
(***************************************************************************)
RoundedValue(metric_name, value) ==
  IF metric_name = "speed" /\ value.tag # "none"
    THEN Num(RoundHalfEven(value.n, 10))
    ELSE IF FloatRaises(value) THEN value
         ELSE Num(RoundHalfEven(value.n, 100))

UpdateRaises(metric_name, value) ==
  IF metric_name = "speed" /\ value.tag # "none" /\ FloatRaises(value)
    THEN FloatError(value)
    ELSE "no"

\* line 32 with the bug "keep the value already held"
StoreValue_FirstWins(cv, metric_name, value) ==
  IF DictHas(cv, metric_name) THEN cv ELSE DictSet(cv, metric_name, value)

\* line 32
StoreValue(cv, metric_name, value) == DictSet(cv, metric_name, value)

\* line 33
StampTime(lut, metric_name, t) == DictSet(lut, metric_name, t)

(***************************************************************************)
(* get_processed_metrics, lines 48-57: one iteration of the loop body.     *)
(***************************************************************************)
\* defaultdict(float): a missing key reads as 0.0 and is inserted.
ReadUpdateTime(lut, metric) == IF DictHas(lut, metric) THEN DictGet(lut, metric) ELSE 0

TouchUpdateTime(lut, metric) == IF DictHas(lut, metric) THEN lut ELSE DictSet(lut, metric, 0)

\* line 50 with ">=" for ">"
IsStale_AtThreshold(time_since_update) == time_since_update >= stale_threshold

IsStale(time_since_update) == time_since_update > stale_threshold

ProcessedValue(metric, value, time_since_update) ==
  IF IsStale(time_since_update)
    THEN IF metric = "cadence" THEN Num(0) ELSE value
    ELSE value

\* The loop of lines 47-57 run without interruption from entry i of cv.
RECURSIVE ProcessFrom(_, _, _, _, _)
ProcessFrom(cv, lut, t, i, acc) ==
  IF i > Len(cv) THEN acc
  ELSE ProcessFrom(cv, lut, t, i + 1,
         DictSet(acc, cv[i].k,
                 ProcessedValue(cv[i].k, cv[i].v, t - ReadUpdateTime(lut, cv[i].k))))

RECURSIVE TouchAll(_, _, _)
TouchAll(cv, lut, i) ==
  IF i > Len(cv) THEN lut ELSE TouchAll(cv, TouchUpdateTime(lut, cv[i].k), i + 1)

(***************************************************************************)
(* SpecDP: one call at a time.                                             *)
(***************************************************************************)
update_metric(metric_name, value) ==
  /\ IF UpdateRaises(metric_name, value) # "no"
       THEN /\ dp_raised' = UpdateRaises(metric_name, value)
            /\ UNCHANGED <<current_values, last_update_time, last_completed>>
       ELSE /\ dp_raised' = "no"
            /\ current_values' =
                 StoreValue(current_values, metric_name, RoundedValue(metric_name, value))
            /\ last_update_time' = StampTime(last_update_time, metric_name, now)
            /\ last_completed' =
                 DictSet(last_completed, metric_name, [value |-> value, time |-> now])
  /\ dp_op' = "update_metric"
  /\ processed_metrics' = <<>>
  /\ UNCHANGED <<now, current_time, dpConcVars, OtherThanDP>>

\* a read that refreshes the timestamps it looks at
get_processed_metrics_Refreshing ==
  /\ current_time' = now
  /\ processed_metrics' = ProcessFrom(current_values, last_update_time, now, 1, <<>>)
  /\ last_update_time' =
       [i \in DOMAIN last_update_time |-> [k |-> last_update_time[i].k, v |-> now]]
  /\ dp_op' = "get_processed_metrics"
  /\ dp_raised' = "no"
  /\ UNCHANGED <<now, current_values, last_completed, dpConcVars, OtherThanDP>>

get_processed_metrics ==
  /\ current_time' = now
  /\ processed_metrics' = ProcessFrom(current_values, last_update_time, now, 1, <<>>)
  /\ last_update_time' = TouchAll(current_values, last_update_time, 1)
  /\ dp_op' = "get_processed_metrics"
  /\ dp_raised' = "no"
  /\ UNCHANGED <<now, current_values, last_completed, dpConcVars, OtherThanDP>>

Tick ==
  /\ now < MaxTime
  /\ now' = now + 1
  /\ dp_op' = "tick"
  /\ processed_metrics' = <<>>
  /\ UNCHANGED <<current_values, last_update_time, current_time, dp_raised,
                 last_completed, dpConcVars, OtherThanDP>>

UpdateAny == \E k \in Kinds, v \in InputValues : update_metric(k, v)

NextDP == UpdateAny \/ get_processed_metrics \/ Tick

SpecDP == Init /\ [][NextDP]_vars

(***************************************************************************)
(* SpecDPConc: get_processed_metrics runs on the web server's thread        *)
(* (WebServer.update_loop, started by cli.start in web_thread) while         *)
(* update_metric runs on the device loop's thread (broadcast_metrics).       *)
(* No lock is taken; a thread switch may fall between any two statements.    *)
(***************************************************************************)
Absent == [tag |-> "absent", n |-> 0]

\* lines 44-47: take the time, create the result and the items() iterator
RdStart ==
  /\ rd_pc \in {"idle", "returned", "raised"}
  /\ current_time' = now
  /\ processed_metrics' = <<>>
  /\ rd_iter' = [used |-> Len(current_values), pos |-> 1]
  /\ rd_pc' = "next"
  /\ dp_raised' = "no"
  /\ dp_boundaries' = {dp_last_boundary}
  /\ UNCHANGED <<now, current_values, last_update_time, dp_op, last_completed,
                 rd_item, wr_pc, wr_call, wr_count, dp_last_boundary, OtherThanDP>>

\* line 47: the iterator's next().  A dict whose size changed since the
\* iterator was created raises RuntimeError, checked before exhaustion.
RdNext ==
  /\ rd_pc = "next"
  /\ IF rd_iter.used # Len(current_values)
       THEN /\ rd_pc' = "raised"
            /\ dp_raised' = "RuntimeError"
            /\ UNCHANGED <<rd_iter, rd_item>>
       ELSE IF rd_iter.pos > Len(current_values)
         THEN /\ rd_pc' = "returned"
              /\ UNCHANGED <<rd_iter, rd_item, dp_raised>>
         ELSE /\ rd_item' = current_values[rd_iter.pos]
              /\ rd_iter' = [rd_iter EXCEPT !.pos = @ + 1]
              /\ rd_pc' = "body"
              /\ UNCHANGED dp_raised
  /\ UNCHANGED <<now, current_values, last_update_time, current_time,
                 processed_metrics, dp_op, last_completed,
                 wr_pc, wr_call, wr_count, dp_last_boundary, dp_boundaries,
                 OtherThanDP>>

\* lines 48-57
RdBody ==
  /\ rd_pc = "body"
  /\ processed_metrics' =
       DictSet(processed_metrics, rd_item.k,
               ProcessedValue(rd_item.k, rd_item.v,
                              current_time - ReadUpdateTime(last_update_time, rd_item.k)))
  /\ last_update_time' = TouchUpdateTime(last_update_time, rd_item.k)
  /\ rd_pc' = "next"
  /\ UNCHANGED <<now, current_values, current_time, dp_op, dp_raised, last_completed,
                 rd_iter, rd_item, wr_pc, wr_call, wr_count,
                 dp_last_boundary, dp_boundaries, OtherThanDP>>

\* lines 22-32: round, then store the value
WrStore(metric_name, value) ==
  /\ wr_pc = "idle"
  /\ wr_count < MaxUpdates
  /\ wr_count' = wr_count + 1
  /\ IF UpdateRaises(metric_name, value) # "no"
       THEN UNCHANGED <<current_values, wr_pc, wr_call>>
       ELSE /\ current_values' =
                 StoreValue(current_values, metric_name, RoundedValue(metric_name, value))
            /\ wr_call' = [k |-> metric_name, v |-> RoundedValue(metric_name, value)]
            /\ wr_pc' = "line33"
  /\ UNCHANGED <<now, last_update_time, current_time, processed_metrics, dp_op,
                 dp_raised, last_completed, rd_pc, rd_iter, rd_item,
                 dp_last_boundary, dp_boundaries, OtherThanDP>>

\* line 33: stamp the time; the call returns
WrStamp ==
  /\ wr_pc = "line33"
  /\ last_update_time' = StampTime(last_update_time, wr_call.k, now)
  /\ wr_pc' = "idle"
  /\ dp_last_boundary' = [cv |-> current_values, lut |-> last_update_time']
  /\ dp_boundaries' = IF rd_pc \in {"next", "body", "returned"}
                        THEN dp_boundaries \cup {dp_last_boundary'}
                        ELSE dp_boundaries
  /\ UNCHANGED <<now, current_values, current_time, processed_metrics, dp_op,
                 dp_raised, last_completed, rd_pc, rd_iter, rd_item, wr_call, wr_count,
                 OtherThanDP>>

ClockTick ==
  /\ now < MaxTime
  /\ now' = now + 1
  /\ UNCHANGED <<current_values, last_update_time, current_time, processed_metrics,
                 dp_op, dp_raised, last_completed, dpConcVars, OtherThanDP>>

WrStoreAny == \E k \in Kinds, v \in InputValues : WrStore(k, v)

NextDPConc == RdStart \/ RdNext \/ RdBody \/ WrStoreAny \/ WrStamp \/ ClockTick

SpecDPConc == Init /\ [][NextDPConc]_vars

\* What a read at time t reports for kind k when it runs alone on the dicts S.
ReportOf(S, k, t) ==
  IF DictHas(S.cv, k)
    THEN ProcessedValue(k, DictGet(S.cv, k), t - ReadUpdateTime(S.lut, k))
    ELSE Absent

Reported(k) == IF DictHas(processed_metrics, k) THEN DictGet(processed_metrics, k) ELSE Absent

(***************************************************************************)
(* SpecConn: one device session.  connect() of the three classes, step by  *)
(* step between awaits; disconnect(); the peripheral dropping a link.      *)
(***************************************************************************)
Range(q) == {q[i] : i \in DOMAIN q}

\* "if m not in self.available_metrics: self.available_metrics.append(m)"
AppendNew(q, x) == IF x \in Range(q) THEN q ELSE Append(q, x)

IsWahoo(d) == d = "wahoo"

SubscriptionsOf(c) == {sub \in subscriptions : sub[1] = c}

\* speed_cadence.py line 462 with "attempt > 1"
NeedsBackoff_SkipSecond(a) == a > 1

\* speed_cadence.py line 462
NeedsBackoff(a) == a > 0

\* speed_cadence.py line 460/568: this attempt is the last of the budget
IsLastAttempt(a) == a = max_connection_attempts - 1

\* "continue", or falling off the end of the loop body: the next iteration,
\* or line 572 "return False" and connect()'s lines 642-644.
NextAttempt ==
  IF IsLastAttempt(attempt)
    THEN /\ result' = "False"
         /\ pc' = "done"
         /\ UNCHANGED attempt
    ELSE /\ attempt' = attempt + 1
         /\ pc' = "attempt"
         /\ UNCHANGED result

\* lines 564-570: the handler continues, or re-raises on the last attempt;
\* connect() catches that at lines 646-652 and returns False.
OnException ==
  IF IsLastAttempt(attempt)
    THEN /\ result' = "False"
         /\ pc' = "done"
         /\ UNCHANGED attempt
    ELSE /\ attempt' = attempt + 1
         /\ pc' = "attempt"
         /\ UNCHANGED result

\* connect() is entered (heart_rate.py 77, trainer.py 171,
\* speed_cadence.py 609-619).  A speed/cadence session with a cached device
\* skips the scan.
connect_start ==
  /\ cls \in Classes
  /\ pc \in {"idle", "done"}
  /\ connects < MaxConnects
  /\ connects' = connects + 1
  /\ result' = "none"
  /\ disc_result' = "none"
  /\ attempt' = 0
  /\ attempt_log' = <<>>
  /\ backoff_waited' = 0
  /\ call_first' = clients_made
  /\ other_fault' = FALSE
  /\ services' = NoServices
  /\ link_plan' \in [1..max_connection_attempts -> LinkOutcomes]
  /\ IF cls = "speed_cadence" /\ cached_device # "none"
       THEN device' = cached_device /\ pc' = "attempt"
       ELSE pc' = "scan" /\ UNCHANGED device
  /\ UNCHANGED <<cls, device_name, cached_device, client, active_notifications,
                 available_metrics, clients_made, open_links, subscriptions,
                 OtherThanConn>>

\* "self.device = await self.find_device()" (heart_rate.py 79-81, trainer.py
\* 174-176, speed_cadence.py 615-617), outside any try: BleakScanner.discover
\* raises, finds nothing, or finds a device.  A session with a target name
\* matches named devices only; speed_cadence.py 102-103 caches a name match.
\* heart_rate.py 84 / trainer.py 181 then create the client.
find_device ==
  /\ pc = "scan"
  /\ \E o \in {"raise", "none"} \cup DeviceKinds :
       CASE o = "raise" ->
              /\ result' = "raised"
              /\ pc' = "done"
              /\ UNCHANGED <<device, cached_device, client, clients_made>>
         [] o = "none" ->
              /\ device' = "none"
              /\ result' = "False"
              /\ pc' = "done"
              /\ UNCHANGED <<cached_device, client, clients_made>>
         [] OTHER ->
              /\ cls # "speed_cadence" => o = "plain"
              /\ device_name => o # "unnamed"
              /\ device' = o
              /\ UNCHANGED result
              /\ IF cls = "speed_cadence"
                   THEN /\ cached_device' = IF device_name THEN o ELSE cached_device
                        /\ pc' = "attempt"
                        /\ UNCHANGED <<client, clients_made>>
                   ELSE /\ client' = clients_made + 1
                        /\ clients_made' = clients_made + 1
                        /\ pc' = "link"
                        /\ UNCHANGED cached_device
  /\ UNCHANGED <<cls, device_name, active_notifications, available_metrics, attempt,
                 services, disc_result, open_links, subscriptions, link_plan,
                 attempt_log, backoff_waited, call_first, other_fault, connects,
                 OtherThanConn>>

\* _robust_connect lines 460-473: backoff sleep, device.name.lower() (an
\* AttributeError when the name is None), the Wahoo settle delay, a new
\* BleakClient.
robust_connect_begin ==
  /\ cls = "speed_cadence"
  /\ pc = "attempt"
  /\ backoff_waited' = IF NeedsBackoff(attempt) THEN connection_retry_delay ELSE 0
  /\ IF device = "unnamed"
       THEN /\ OnException
            /\ other_fault' = TRUE
            /\ UNCHANGED <<client, clients_made>>
       ELSE /\ client' = clients_made + 1
            /\ clients_made' = clients_made + 1
            /\ pc' = "link"
            /\ UNCHANGED <<attempt, result, other_fault>>
  /\ UNCHANGED <<cls, device_name, device, cached_device, active_notifications,
                 available_metrics, services, disc_result, open_links, subscriptions,
                 link_plan, attempt_log, call_first, connects, OtherThanConn>>

\* _robust_connect lines 476-484: wait_for(client.connect(), 10.0)
robust_connect_link ==
  /\ cls = "speed_cadence"
  /\ pc = "link"
  /\ LET o == link_plan[attempt + 1]
     IN  /\ attempt_log' = Append(attempt_log, [outcome |-> o, backoff |-> backoff_waited])
         /\ CASE o = "ok" ->
                   /\ open_links' = open_links \cup {client}
                   /\ pc' = "services"
                   /\ UNCHANGED <<attempt, result>>
              [] o = "error" ->
                   /\ OnException
                   /\ UNCHANGED open_links
              [] OTHER ->
                   /\ NextAttempt
                   /\ UNCHANGED open_links
  /\ UNCHANGED <<cls, device_name, device, cached_device, client, active_notifications,
                 available_metrics, services, disc_result, clients_made, subscriptions,
                 link_plan, backoff_waited, call_first, other_fault, connects,
                 OtherThanConn>>

\* _robust_connect lines 489-526: client.services; none at all returns False
\* at once.  check_battery_level swallows its errors.
robust_connect_services ==
  /\ pc = "services"
  /\ \E sv \in {NoServices} \cup {[found |-> TRUE, notify |-> n] : n \in SUBSET NotifyChars} :
       /\ services' = sv
       /\ other_fault' = (other_fault \/ sv.notify = {})
       /\ IF sv.found
            THEN pc' = "wake" /\ UNCHANGED result
            ELSE pc' = "done" /\ result' = "False"
  /\ UNCHANGED <<cls, device_name, device, cached_device, client, active_notifications,
                 available_metrics, attempt, disc_result, clients_made, open_links,
                 subscriptions, link_plan, attempt_log, backoff_waited, call_first,
                 connects, OtherThanConn>>

\* _robust_connect lines 528-533: wake_up_device(); an error it lets out is
\* handled at lines 564-570.
robust_connect_wake ==
  /\ pc = "wake"
  /\ \E ok \in BOOLEAN :
       IF ok
         THEN /\ pc' = "csc"
              /\ UNCHANGED <<attempt, result, other_fault>>
         ELSE /\ OnException
              /\ other_fault' = TRUE
  /\ UNCHANGED <<cls, device_name, device, cached_device, client, active_notifications,
                 available_metrics, services, disc_result, clients_made, open_links,
                 subscriptions, link_plan, attempt_log, backoff_waited, call_first,
                 connects, OtherThanConn>>

\* _robust_connect lines 537-552: CSC Measurement first, its error swallowed
robust_connect_csc ==
  /\ pc = "csc"
  /\ LET can == client \in open_links /\ "csc" \in services.notify
     IN  \E ok \in BOOLEAN :
           /\ ~can => ok
           /\ IF can /\ ok
                THEN /\ active_notifications' = active_notifications \cup {"csc"}
                     /\ subscriptions' = subscriptions \cup {<<client, "csc">>}
                ELSE UNCHANGED <<active_notifications, subscriptions>>
           /\ other_fault' = (other_fault \/ ~ok)
  /\ pc' = "suball"
  /\ UNCHANGED <<cls, device_name, device, cached_device, client, available_metrics,
                 attempt, services, result, disc_result, clients_made, open_links,
                 link_plan, attempt_log, backoff_waited, call_first, connects,
                 OtherThanConn>>

\* _robust_connect lines 555-562 with subscribe_to_all_notify_chars (420-456)
\* and add_dummy_metrics (404-418)
robust_connect_subscribe ==
  /\ pc = "suball"
  /\ LET todo == services.notify \ active_notifications
     IN  \E okset \in SUBSET todo :
           /\ client \notin open_links => okset = {}
           /\ active_notifications' = active_notifications \cup okset
           /\ subscriptions' = subscriptions \cup {<<client, ch>> : ch \in okset}
           /\ other_fault' = (other_fault \/ okset # todo)
           /\ IF active_notifications # {} \/ okset # {}
                THEN /\ available_metrics' =
                          IF IsWahoo(device) THEN AppendNew(available_metrics, "cadence")
                                             ELSE available_metrics
                     /\ result' = "True"
                     /\ pc' = "done"
                     /\ UNCHANGED attempt
                ELSE /\ NextAttempt
                     /\ UNCHANGED available_metrics
  /\ UNCHANGED <<cls, device_name, device, cached_device, client, services,
                 disc_result, clients_made, open_links, link_plan, attempt_log,
                 backoff_waited, call_first, connects, OtherThanConn>>

\* heart_rate.py 85 / trainer.py 182: "await self.client.connect()", once,
\* inside the try: an exception returns False.
simple_connect_link ==
  /\ cls \in {"heart_rate", "trainer"}
  /\ pc = "link"
  /\ LET o == link_plan[1]
     IN  /\ attempt_log' = Append(attempt_log, [outcome |-> o, backoff |-> backoff_waited])
         /\ CASE o = "ok" ->
                   /\ open_links' = open_links \cup {client}
                   /\ pc' = "notify"
                   /\ UNCHANGED result
              [] o = "down" ->
                   /\ pc' = "notify"
                   /\ UNCHANGED <<open_links, result>>
              [] OTHER ->
                   /\ result' = "False"
                   /\ pc' = "done"
                   /\ UNCHANGED open_links
  /\ UNCHANGED <<cls, device_name, device, cached_device, client, active_notifications,
                 available_metrics, attempt, services, disc_result, clients_made,
                 subscriptions, link_plan, backoff_waited, call_first, other_fault,
                 connects, OtherThanConn>>

\* heart_rate.py 87-99: start_notify, then the zero sample and True
heart_rate_notify ==
  /\ cls = "heart_rate"
  /\ pc = "notify"
  /\ \E ok \in BOOLEAN :
       /\ client \notin open_links => ~ok
       /\ subscriptions' = IF ok THEN subscriptions \cup {<<client, "hrm">>} ELSE subscriptions
       /\ result' = IF ok THEN "True" ELSE "False"
       /\ other_fault' = (other_fault \/ (client \in open_links /\ ~ok))
  /\ pc' = "done"
  /\ UNCHANGED <<cls, device_name, device, cached_device, client, active_notifications,
                 available_metrics, attempt, services, disc_result, clients_made,
                 open_links, link_plan, attempt_log, backoff_waited, call_first,
                 connects, OtherThanConn>>

\* trainer.py 193-223: Indoor Bike Data, else UART; neither returns False
trainer_notify ==
  /\ cls = "trainer"
  /\ pc = "notify"
  /\ \E ibd \in BOOLEAN, uart \in BOOLEAN :
       /\ client \notin open_links => ~ibd /\ ~uart
       /\ ibd => ~uart
       /\ subscriptions' =
            IF ibd THEN subscriptions \cup {<<client, "ibd">>}
            ELSE IF uart THEN subscriptions \cup {<<client, "uart">>}
            ELSE subscriptions
       /\ other_fault' = (other_fault \/ (client \in open_links /\ ~ibd))
       /\ IF ibd \/ uart
            THEN pc' = "control" /\ UNCHANGED result
            ELSE pc' = "done" /\ result' = "False"
  /\ UNCHANGED <<cls, device_name, device, cached_device, client, active_notifications,
                 available_metrics, attempt, services, disc_result, clients_made,
                 open_links, link_plan, attempt_log, backoff_waited, call_first,
                 connects, OtherThanConn>>

\* trainer.py 225-272: control-point writes and the direct read, every error
\* swallowed; a read that carries power adds it (handle_indoor_bike_data
\* 98-105).
trainer_control ==
  /\ cls = "trainer"
  /\ pc = "control"
  /\ \E r \in {"fail", "power"} :
       available_metrics' =
         IF r = "power" THEN AppendNew(available_metrics, "power") ELSE available_metrics
  /\ result' = "True"
  /\ pc' = "done"
  /\ UNCHANGED <<cls, device_name, device, cached_device, client, active_notifications,
                 attempt, services, disc_result, clients_made, open_links, subscriptions,
                 link_plan, attempt_log, backoff_waited, call_first, other_fault,
                 connects, OtherThanConn>>

\* disconnect(): "if self.client and self.client.is_connected"
DisconnectCalls(c, links) == c # 0 /\ c \in links

\* disconnect() of the three classes (heart_rate.py 101-105, trainer.py
\* 277-281, speed_cadence.py 654-658): client.disconnect() closes the link,
\* or raises with the link closed or still open.
disconnect ==
  /\ cls \in Classes
  /\ pc \in {"idle", "done"}
  /\ IF DisconnectCalls(client, open_links)
       THEN \E o \in {"ok", "raise_closed", "raise_open"} :
              /\ disc_result' = IF o = "ok" THEN "returned" ELSE "raised"
              /\ open_links' = IF o = "raise_open" THEN open_links
                                                   ELSE open_links \ {client}
              /\ subscriptions' = IF o = "raise_open" THEN subscriptions
                                   ELSE subscriptions \ SubscriptionsOf(client)
       ELSE /\ disc_result' = "returned"
            /\ UNCHANGED <<open_links, subscriptions>>
  /\ UNCHANGED <<cls, device_name, device, cached_device, client, active_notifications,
                 available_metrics, pc, attempt, services, result, clients_made,
                 link_plan, attempt_log, backoff_waited, call_first, other_fault,
                 connects, OtherThanConn>>

\* The peripheral goes away: an open link drops.
link_loss ==
  /\ \E c \in open_links :
       /\ open_links' = open_links \ {c}
       /\ subscriptions' = subscriptions \ SubscriptionsOf(c)
  /\ other_fault' = TRUE
  /\ UNCHANGED <<cls, device_name, device, cached_device, client, active_notifications,
                 available_metrics, pc, attempt, services, result, disc_result,
                 clients_made, link_plan, attempt_log, backoff_waited, call_first,
                 connects, OtherThanConn>>

NextConn ==
  \/ connect_start
  \/ find_device
  \/ robust_connect_begin
  \/ robust_connect_link
  \/ robust_connect_services
  \/ robust_connect_wake
  \/ robust_connect_csc
  \/ robust_connect_subscribe
  \/ simple_connect_link
  \/ heart_rate_notify
  \/ trainer_notify
  \/ trainer_control
  \/ disconnect
  \/ link_loss

SpecConn == InitC /\ [][NextConn]_vars

\* Links opened by the running (or last) connect() call.
CallLinks == {c \in open_links : c > call_first}

(***************************************************************************)
(* SpecDisc: DeviceController.disconnect_devices as start_auto_monitoring  *)
(* drives it.  The event loop runs only inside run_until_complete, that is *)
(* while a call of disconnect_devices is waiting in gather.                *)
(***************************************************************************)
LoopRunning == dd_pc = "gather"

\* controller.py 341-356 up to the await: clear running, one coroutine per
\* device field that is set, gather them if there are any.
disconnect_devices ==
  /\ dd_caller \in CallSites
  /\ dd_pc = "idle"
  /\ running' = FALSE
  /\ LET mine == [c \in Classes |-> IF devices[c] = "none" THEN "none" ELSE "pending"]
     IN  /\ tasks' = [tasks EXCEPT ![dd_caller] = mine]
         /\ dd_pc' = IF mine = NoTasks THEN "returned" ELSE "gather"
  /\ UNCHANGED <<devices, dd_caller, OtherThanCtl>>

\* A gathered disconnect() starts: without an open link it is over at once;
\* with one it awaits client.disconnect(), which may never complete.
task_start(s, c) ==
  /\ LoopRunning
  /\ tasks[s][c] = "pending"
  /\ \E t \in IF devices[c] = "linked" THEN {"awaiting", "hung"} ELSE {"done"} :
       tasks' = [tasks EXCEPT ![s][c] = t]
  /\ UNCHANGED <<devices, running, dd_pc, dd_caller, OtherThanCtl>>

\* The awaited client.disconnect() completes: the link is closed, or it
\* raises with the link closed or still open.
task_finish(s, c) ==
  /\ LoopRunning
  /\ tasks[s][c] = "awaiting"
  /\ \E o \in {"ok", "raise_closed", "raise_open"} :
       /\ tasks' = [tasks EXCEPT ![s][c] = IF o = "ok" THEN "done" ELSE "raised"]
       /\ devices' = [devices EXCEPT ![c] = IF o = "raise_open" THEN @ ELSE "unlinked"]
  /\ UNCHANGED <<running, dd_pc, dd_caller, OtherThanCtl>>

\* controller.py 356, "await asyncio.gather(*tasks)" without
\* return_exceptions: the first exception is raised to the awaiter, else
\* the await ends when every coroutine has returned.
gather_done ==
  /\ dd_pc = "gather"
  /\ LET mine == tasks[dd_caller]
     IN  \/ /\ \E c \in Classes : mine[c] = "raised"
            /\ dd_pc' = "raised"
         \/ /\ \A c \in Classes : mine[c] \in {"none", "done"}
            /\ dd_pc' = "returned"
  /\ UNCHANGED <<devices, running, tasks, dd_caller, OtherThanCtl>>

\* run() ends (controller.py 335-339), by return or by the exception of
\* disconnect_devices; start_auto_monitoring goes on to its finally.
run_exits ==
  /\ dd_caller = "run"
  /\ dd_pc \in {"returned", "raised"}
  /\ dd_caller' = "finally"
  /\ dd_pc' = "idle"
  /\ UNCHANGED <<devices, running, tasks, OtherThanCtl>>

\* controller.py 400-405: the second call is over, "except Exception: pass"
finally_exits ==
  /\ dd_caller = "finally"
  /\ dd_pc \in {"returned", "raised"}
  /\ dd_caller' = "exited"
  /\ UNCHANGED <<devices, running, tasks, dd_pc, OtherThanCtl>>

TaskStartAny == \E s \in CallSites, c \in Classes : task_start(s, c)

TaskFinishAny == \E s \in CallSites, c \in Classes : task_finish(s, c)

NextDisc ==
  \/ disconnect_devices
  \/ TaskStartAny
  \/ TaskFinishAny
  \/ gather_done
  \/ run_exits
  \/ finally_exits

SpecDisc == InitD /\ [][NextDisc]_vars

\* The event loop runs every coroutine that can run.
FairDisc ==
  /\ WF_vars(disconnect_devices)
  /\ WF_vars(gather_done)
  /\ WF_vars(run_exits)
  /\ WF_vars(finally_exits)
  /\ \A s \in CallSites, c \in Classes :
       WF_vars(task_start(s, c)) /\ WF_vars(task_finish(s, c))

SpecDiscFair == InitD /\ [][NextDisc]_vars /\ FairDisc

\* Coroutines of the call site s that have started or are waiting to.
Unfinished(s) == {c \in Classes : tasks[s][c] \in {"pending", "awaiting"}}

(***************************************************************************)
(* SpecCsc: SpeedCadenceDevice.handle_csc_measurement.  A payload is a     *)
(* sequence of bytes; counters are plain integers, None is NoneValue.      *)
(***************************************************************************)
\* Python data[a:b]
Slice(data, a, b) == SubSeq(data, a + 1, IF b < Len(data) THEN b ELSE Len(data))

\* int.from_bytes(b, byteorder='little'); 0 for no bytes
RECURSIVE FromBytesLE(_)
FromBytesLE(b) == IF b = <<>> THEN 0 ELSE Head(b) + 256 * FromBytesLE(Tail(b))

\* a 16-bit field as the peripheral sends it
Bytes16(x) == <<x % 256, x \div 256>>

\* Python round(n / d) for d > 0
RoundRatio(n, d) == RoundHalfEven(n, d) \div d

\* lines 271-285: round((rev_diff * 60.0) / (ticks / 1024.0)), evaluated as
\* whole part plus rounded remainder so that no intermediate product leaves
\* the 32-bit integers of the checker (the whole part is even, which keeps
\* round-half-to-even).
CadenceOf(rev_diff, ticks) ==
  LET a == rev_diff * 60
  IN  (a \div ticks) * 1024 + RoundRatio((a % ticks) * 1024, ticks)

\* raw crank fields of a payload
Raw(r, t) == [tag |-> "raw", revs |-> r, time |-> t]

\* Crank revolution counts and event times (1/1024 s) the sensor sends: around
\* zero and around the 16-bit wrap.
CrankRevs == {0, 1, 65535}
CrankTimes == {0, 1024, 64512}

\* flags with the cadence bit, alone or with the speed bit
CadenceFlags == {2, 3}

\* CSC Measurement as the sensor encodes it: flags, the wheel fields (4 + 2
\* bytes) when bit 0 is set, the crank fields (2 + 2 bytes) when bit 1 is.
CscPayload(flags, r, t) ==
  <<flags>> \o (IF flags % 2 = 1 THEN <<1, 0, 0, 0, 1, 0>> ELSE <<>>)
            \o Bytes16(r) \o Bytes16(t)

\* Lengths a notification of this payload arrives with: whole, or cut to
\* nothing, to the flags byte, before the crank fields, between them, or
\* one byte short.
PayloadLengths(whole) ==
  {0, 1, Len(whole) - 4, Len(whole) - 2, Len(whole) - 1, Len(whole)}

\* lines 267-268: timer wraparound
AdjustTime(raw, last) == IF raw < last THEN raw + 65536 ELSE raw

\* lines 296-297: crank_event_time was reassigned at line 268, so it is the
\* adjusted value that is stored
StoredTime(raw, adjusted) == adjusted

\* lines 273-275: revolution counter wraparound
RevDiff(revs, last) == IF revs - last < 0 THEN revs - last + 65536 ELSE revs - last

\* handle_csc_measurement (230-306) on decoder fields lt, lr: the cadence it
\* forwards and the fields it leaves.  The whole body is in a try that
\* swallows every exception; data[0] of an empty payload raises inside it.
HandleCsc(data, lt, lr) ==
  IF Len(data) = 0
    THEN [raised |-> FALSE, emitted |-> NoneValue, lt |-> lt, lr |-> lr]
    ELSE
      LET flags == data[1]
          has_speed == flags % 2 = 1
          has_cadence == (flags \div 2) % 2 = 1
          i == IF has_speed THEN 7 ELSE 1
          crank_revs == FromBytesLE(Slice(data, i, i + 2))
          raw_time == FromBytesLE(Slice(data, i + 2, i + 4))
      IN  IF ~has_cadence
            THEN [raised |-> FALSE, emitted |-> NoneValue, lt |-> lt, lr |-> lr]
          ELSE IF lt.tag = "num" /\ lr.tag = "num"
            THEN LET crank_event_time == AdjustTime(raw_time, lt.n)
                     ticks == crank_event_time - lt.n
                     rev_diff == RevDiff(crank_revs, lr.n)
                 IN  [raised |-> FALSE,
                      emitted |-> IF ticks > 0
                                    THEN Num(CadenceOf(rev_diff, ticks))
                                    ELSE NoneValue,
                      lt |-> Num(StoredTime(raw_time, crank_event_time)),
                      lr |-> Num(crank_revs)]
            ELSE [raised |-> FALSE, emitted |-> NoneValue,
                  lt |-> Num(raw_time), lr |-> Num(crank_revs)]

\* connect() has succeeded (609-652, _robust_connect 458-572): CSC
\* notifications are enabled.  No statement of either assigns
\* _last_crank_time or _last_crank_revs.
csc_connect ==
  /\ csc_link = "down"
  /\ csc_link' = "up"
  /\ csc_since_connect' = 0
  /\ csc_kind' = "none"
  /\ csc_emitted' = NoneValue
  /\ UNCHANGED <<last_crank_time, last_crank_revs, csc_raised, csc_cur, csc_prev,
                 csc_clean, shadow_time, shadow_revs, shadow_emitted, OtherThanCsc>>

\* disconnect() (654-658) closes the link; the decoder fields stay.
csc_disconnect ==
  /\ csc_link = "up"
  /\ csc_link' = "down"
  /\ UNCHANGED <<last_crank_time, last_crank_revs, csc_since_connect, csc_kind,
                 csc_emitted, csc_raised, csc_cur, csc_prev, csc_clean,
                 shadow_time, shadow_revs, shadow_emitted, OtherThanCsc>>

\* A CSC notification arrives: the first n bytes of the payload for flags,
\* r, t (all of them for a well-formed payload).
csc_notification(flags, r, t, n) ==
  /\ csc_link = "up"
  /\ LET whole == CscPayload(flags, r, t)
         data == SubSeq(whole, 1, n)
         wf == n = Len(whole)
         h == HandleCsc(data, last_crank_time, last_crank_revs)
         sh == HandleCsc(data, shadow_time, shadow_revs)
     IN  /\ n \in PayloadLengths(whole)
         /\ last_crank_time' = h.lt
         /\ last_crank_revs' = h.lr
         /\ csc_emitted' = h.emitted
         /\ csc_raised' = h.raised
         /\ csc_kind' = IF wf THEN "well" ELSE "truncated"
         /\ csc_clean' = (csc_clean /\ wf)
         /\ csc_cur' = IF wf THEN Raw(r, t) ELSE csc_cur
         /\ csc_prev' = IF wf THEN csc_cur ELSE csc_prev
         /\ shadow_time' = IF wf THEN sh.lt ELSE shadow_time
         /\ shadow_revs' = IF wf THEN sh.lr ELSE shadow_revs
         /\ shadow_emitted' = IF wf THEN sh.emitted ELSE shadow_emitted
  /\ csc_since_connect' = IF csc_since_connect = 0 THEN 1 ELSE 2
  /\ UNCHANGED <<csc_link, OtherThanCsc>>

CscNotificationAny ==
  \E flags \in CadenceFlags, r \in CrankRevs, t \in CrankTimes :
    \E n \in PayloadLengths(CscPayload(flags, r, t)) :
      csc_notification(flags, r, t, n)

NextCsc ==
  \/ csc_connect
  \/ csc_disconnect
  \/ CscNotificationAny

SpecCsc == Init /\ [][NextCsc]_vars

(***************************************************************************)
(* SpecHr: the heart-rate notification handler, HeartRateDevice            *)
(* .handle_heart_rate (heart_rate.py 54-67); monitor.handle_heart_rate     *)
(* (monitor.py 122-129) parses the payload in the same way.                *)
(***************************************************************************)
\* bytes of the payloads tried: flags with and without the 16-bit bit, alone
\* (0, 1) and with other flag bits (72, 17), and heart rates
HrBytes == {0, 1, 17, 72, 200}

\* payloads of every length up to flags, two value bytes and one byte of
\* the fields that follow
HrPayloads == UNION {[1..n -> HrBytes] : n \in 0..4}

\* The handler on a payload: data[0] and data[1] raise IndexError past the
\* end, the slice data[1:3] does not.
\* the value read as uint8 whatever the flags
HandleHr_Uint8Only(data) ==
  IF Len(data) < 2
    THEN [raised |-> TRUE, emitted |-> NoneValue]
    ELSE [raised |-> FALSE, emitted |-> Num(data[2])]

HandleHr(data) ==
  IF Len(data) = 0
    THEN [raised |-> TRUE, emitted |-> NoneValue]
  ELSE IF data[1] % 2 = 1
    THEN [raised |-> FALSE, emitted |-> Num(FromBytesLE(Slice(data, 1, 3)))]
  ELSE IF Len(data) < 2
    THEN [raised |-> TRUE, emitted |-> NoneValue]
  ELSE [raised |-> FALSE, emitted |-> Num(data[2])]

\* A Heart Rate Measurement notification arrives.
hr_notification(data) ==
  /\ LET h == HandleHr(data)
     IN  /\ hr_raised' = h.raised
         /\ hr_emitted' = h.emitted
         /\ current_value' = IF h.raised THEN current_value ELSE h.emitted
  /\ hr_payload' = data
  /\ UNCHANGED OtherThanHr

HrNotificationAny == \E data \in HrPayloads : hr_notification(data)

NextHr == HrNotificationAny

SpecHr == Init /\ [][NextHr]_vars

\* Bytes a payload needs for the value its flags select.
HrNeeded(data) == IF data # <<>> /\ data[1] % 2 = 1 THEN 3 ELSE 2

(***************************************************************************)
(* SpecAdc: DeviceController.auto_discover_connect (controller.py 78-295), *)
(* notifications of the connected sessions, the metric pick-up of run()    *)
(* (312-334).  A scanned device is a record of its name and of the service *)
(* names the scan reports; its place in the scan list is its identity.     *)
(***************************************************************************)
Profile(n, sv) == [name |-> n, services |-> sv]

\* Devices in range: a heart-rate strap, a trainer advertising power, a
\* trainer advertising power and cadence, a Wahoo cadence sensor.
Profiles ==
  { Profile("HRM", {"Heart Rate"}),
    Profile("KICKR", {"Power"}),
    Profile("KICKR", {"Power", "Cadence"}),
    Profile("Wahoo CADENCE", {"Cadence"}) }

\* Scan results: up to two devices, in the order the scan lists them.
ScanResults ==
  {<<>>} \cup {<<a>> : a \in Profiles}
         \cup {q \in Profiles \X Profiles : q[1] # q[2]}

\* the device_types, device_names and metric_types arguments tried ({} is
\* None)
TypeFilters == {{}, {"heart_rate"}, {"trainer", "speed_cadence"}}
NameFilters == {{}, {"kickr"}, {"wahoo"}}
MetricFilters == {{}, {"power"}}

\* name.lower() in device["name"].lower()
NameContains(f, n) ==
  \/ f = "kickr" /\ n = "KICKR"
  \/ f = "wahoo" /\ n = "Wahoo CADENCE"

\* "not device_names or any(name.lower() in device['name'].lower() ...)"
NameAllowed(names, d) == names = {} \/ \E f \in names : NameContains(f, d.name)

\* "not device_types or c in device_types"
TypeWanted(types, c) == types = {} \/ c \in types

\* next((device for device in devices if ...), None) and the for/break
\* loops: the first device of the list that passes, 0 for None.
FirstIndex(hits) ==
  IF hits = {} THEN 0
  ELSE CHOOSE i \in hits : \A j \in hits : i <= j

\* controller.py 108-115 and 133-140
HasService(sv, names, d) == sv \in d.services /\ NameAllowed(names, d)

\* controller.py 169-175
NameHit(names, d) == \E f \in names : NameContains(f, d.name)

\* "wahoo" and "cadence" in the lower-cased name (controller.py 256-257);
\* "CADENCE" and "Wahoo" in the name (182)
IsWahooCadence(n) == n = "Wahoo CADENCE"

\* controller.py 179-192
CadenceLike(d) ==
  \/ IsWahooCadence(d.name)
  \/ d.services \cap {"Speed/Cadence", "Speed", "Cadence"} # {}

\* controller.py 158-192: by name first when names are given, whatever the
\* device advertises, else by name heuristic or service
SpeedCadenceChoice(list, names) ==
  LET byName == IF names = {} THEN 0
                ELSE FirstIndex({j \in DOMAIN list : NameHit(names, list[j])})
  IN  IF byName # 0 THEN byName
      ELSE FirstIndex({j \in DOMAIN list : CadenceLike(list[j])})

\* the keys of METRIC_CONFIG (controller.py 17-22)
METRIC_CONFIG == {"heart_rate", "power", "speed", "cadence"}

\* handle_metric_data (controller.py 56-62), the data_callback of every
\* session: a monitor is made for a kind that has none and is a key of
\* METRIC_CONFIG.  The argument is the key set of metric_monitors.
handle_metric_data(monitors, metric_name) ==
  IF metric_name \notin monitors /\ metric_name \in METRIC_CONFIG
    THEN monitors \cup {metric_name}
    ELSE monitors

\* "for metric in ...: if metric in METRIC_CONFIG:
\* self.metric_monitors[metric] = MetricMonitor(...)" (controller.py
\* 239-246, 321-328)
MakeMonitors(monitors, metrics) == monitors \cup (Range(metrics) \cap METRIC_CONFIG)

\* Entry of auto_discover_connect up to the scan (88-102): no device found
\* returns False.
adc_scan ==
  /\ adc_pc = "idle"
  /\ device_types' \in TypeFilters
  /\ device_names' \in NameFilters
  /\ metric_types' \in MetricFilters
  /\ scanned' \in ScanResults
  /\ IF scanned' = <<>>
       THEN adc_pc' = "done" /\ adc_result' = "False"
       ELSE adc_pc' = "heart_rate" /\ UNCHANGED adc_result
  /\ UNCHANGED <<bound, connected_devices, ctl_available_metrics, sess_metrics,
                 emitted, metric_monitors, OtherThanAdc>>

\* controller.py 107-129: the heart-rate session is built for the first
\* match and kept in the field whether or not connect() succeeds; a
\* connect() that succeeds has passed a zero sample to the callback
\* (heart_rate.py 92-94).
adc_heart_rate ==
  /\ adc_pc = "heart_rate"
  /\ adc_pc' = "trainer"
  /\ LET hits == {j \in DOMAIN scanned : HasService("Heart Rate", device_names, scanned[j])}
         i == IF TypeWanted(device_types, "heart_rate") THEN FirstIndex(hits) ELSE 0
     IN  IF i = 0
           THEN UNCHANGED <<bound, connected_devices, metric_monitors>>
           ELSE /\ bound' = [bound EXCEPT !["heart_rate"] = i]
                /\ \E ok \in BOOLEAN :
                     /\ connected_devices' =
                          IF ok THEN Append(connected_devices, "heart_rate")
                                ELSE connected_devices
                     /\ metric_monitors' =
                          IF ok THEN handle_metric_data(metric_monitors, "heart_rate")
                                ELSE metric_monitors
  /\ UNCHANGED <<device_types, device_names, metric_types, scanned, adc_result,
                 ctl_available_metrics, sess_metrics, emitted, OtherThanAdc>>

\* controller.py 132-154; a connect() that succeeds may have decoded power
\* from its direct read (trainer.py 262-264).
adc_trainer ==
  /\ adc_pc = "trainer"
  /\ adc_pc' = "speed_cadence"
  /\ LET hits == {j \in DOMAIN scanned : HasService("Power", device_names, scanned[j])}
         i == IF TypeWanted(device_types, "trainer") THEN FirstIndex(hits) ELSE 0
     IN  IF i = 0
           THEN UNCHANGED <<bound, connected_devices, sess_metrics, emitted,
                            metric_monitors>>
           ELSE /\ bound' = [bound EXCEPT !["trainer"] = i]
                /\ \E ok \in BOOLEAN, read \in BOOLEAN :
                     /\ read => ok
                     /\ connected_devices' =
                          IF ok THEN Append(connected_devices, "trainer")
                                ELSE connected_devices
                     /\ sess_metrics' =
                          IF read THEN [sess_metrics EXCEPT !["trainer"] = AppendNew(@, "power")]
                                  ELSE sess_metrics
                     /\ emitted' =
                          IF read THEN [emitted EXCEPT !["trainer"] = @ \cup {"power"}]
                                  ELSE emitted
                     /\ metric_monitors' =
                          IF read THEN handle_metric_data(metric_monitors, "power")
                                  ELSE metric_monitors
  /\ UNCHANGED <<device_types, device_names, metric_types, scanned, adc_result,
                 ctl_available_metrics, OtherThanAdc>>

\* controller.py 157-221; a connect() that succeeds on a device named
\* Wahoo has run add_dummy_metrics (speed_cadence.py 558-559, 404-418).
adc_speed_cadence ==
  /\ adc_pc = "speed_cadence"
  /\ adc_pc' = "metrics"
  /\ LET i == IF TypeWanted(device_types, "speed_cadence")
                THEN SpeedCadenceChoice(scanned, device_names) ELSE 0
     IN  IF i = 0
           THEN UNCHANGED <<bound, connected_devices, sess_metrics, metric_monitors>>
           ELSE /\ bound' = [bound EXCEPT !["speed_cadence"] = i]
                /\ \E ok \in BOOLEAN :
                     /\ connected_devices' =
                          IF ok THEN Append(connected_devices, "speed_cadence")
                                ELSE connected_devices
                     /\ sess_metrics' =
                          IF ok /\ IsWahooCadence(scanned[i].name)
                            THEN [sess_metrics EXCEPT !["speed_cadence"] = AppendNew(@, "cadence")]
                            ELSE sess_metrics
                     /\ metric_monitors' =
                          IF ok /\ IsWahooCadence(scanned[i].name)
                            THEN handle_metric_data(metric_monitors, "cadence")
                            ELSE metric_monitors
  /\ UNCHANGED <<device_types, device_names, metric_types, scanned, adc_result,
                 ctl_available_metrics, emitted, OtherThanAdc>>

\* get_available_metrics(): the heart-rate session always answers
\* ["heart_rate"] (heart_rate.py 69-71), the others their list (trainer.py
\* 161-165, speed_cadence.py 315-320).
GetAvailableMetrics(c, sm) == IF c = "heart_rate" THEN <<"heart_rate">> ELSE sm[c]

\* list.extend of all of ms, with no membership test
ExtendNew_NoCheck(acc, ms) == acc \o ms

\* "self.available_metrics.extend([m for m in ms if m not in
\* self.available_metrics])" (controller.py 232-235, 316-320): the test reads
\* the list as it is before the extend.
ExtendNew(acc, ms) ==
  LET Missing(m) == m \notin Range(acc)
  IN  acc \o SelectSeq(ms, Missing)

\* controller.py 228-231
FilterMetrics(ms, wanted) ==
  LET Wanted(m) == wanted = {} \/ m \in wanted
  IN  SelectSeq(ms, Wanted)

\* controller.py 224-235: the loop over connected_devices
RECURSIVE InitMetrics(_, _, _, _)
InitMetrics(devs, acc, sm, wanted) ==
  IF devs = <<>> THEN acc
  ELSE InitMetrics(Tail(devs),
                   ExtendNew(acc, FilterMetrics(GetAvailableMetrics(Head(devs), sm), wanted)),
                   sm, wanted)

\* only the first connected session is looked at
PickUpMetrics_FirstOnly(devs, acc, sm) ==
  IF devs = <<>> THEN acc
  ELSE ExtendNew(acc, GetAvailableMetrics(Head(devs), sm))

\* controller.py 314-320: the loop over connected_devices in run()
RECURSIVE PickUpMetrics(_, _, _)
PickUpMetrics(devs, acc, sm) ==
  IF devs = <<>> THEN acc
  ELSE PickUpMetrics(Tail(devs), ExtendNew(acc, GetAvailableMetrics(Head(devs), sm)), sm)

\* controller.py 255-259
HasWahooCadence ==
  \E c \in Range(connected_devices) :
    bound[c] # 0 /\ IsWahooCadence(scanned[bound[c]].name)

\* controller.py 223-295: collect the metrics of the connected sessions and
\* return True when there is one, or when a Wahoo cadence sensor is
\* connected (a "cadence" entry is then added), else False.
adc_metrics ==
  /\ adc_pc = "metrics"
  /\ adc_pc' = "done"
  /\ LET found == InitMetrics(connected_devices, ctl_available_metrics,
                              sess_metrics, metric_types)
     IN  IF found # <<>>
           THEN /\ ctl_available_metrics' = found
                /\ metric_monitors' = MakeMonitors(metric_monitors, found)
                /\ adc_result' = "True"
         ELSE IF HasWahooCadence
           THEN /\ ctl_available_metrics' = Append(found, "cadence")
                /\ metric_monitors' = metric_monitors \cup {"cadence"}
                /\ adc_result' = "True"
         ELSE /\ ctl_available_metrics' = found
              /\ UNCHANGED metric_monitors
              /\ adc_result' = "False"
  /\ UNCHANGED <<device_types, device_names, metric_types, scanned, bound,
                 connected_devices, sess_metrics, emitted, OtherThanAdc>>

\* Kinds the handlers of a session decode and forward: handle_heart_rate
\* (heart_rate.py 54-67), handle_indoor_bike_data (trainer.py 84-148; power,
\* cadence and distance taken), handle_csc_measurement and the other
\* cadence handlers (speed_cadence.py 154-298).
SessionKinds(c) ==
  IF c = "heart_rate" THEN {"heart_rate"}
  ELSE IF c = "trainer" THEN {"power", "cadence", "distance"}
  ELSE {"cadence"}

\* A connected session decodes a notification and forwards kind k to
\* handle_metric_data; the trainer and speed/cadence handlers then add k to
\* available_metrics if it is not there, the heart-rate handler keeps no
\* list.
session_notification(c, k) ==
  /\ adc_pc # "stopped"
  /\ c \in Range(connected_devices)
  /\ k \in SessionKinds(c)
  /\ emitted' = [emitted EXCEPT ![c] = @ \cup {k}]
  /\ metric_monitors' = handle_metric_data(metric_monitors, k)
  /\ sess_metrics' = IF c = "heart_rate" THEN sess_metrics
                     ELSE [sess_metrics EXCEPT ![c] = AppendNew(@, k)]
  /\ UNCHANGED <<device_types, device_names, metric_types, scanned, adc_pc,
                 adc_result, bound, connected_devices, ctl_available_metrics,
                 OtherThanAdc>>

\* One pass of the loop of run() (controller.py 312-334), which
\* start_auto_monitoring enters after auto_discover_connect returned True:
\* the kinds new to available_metrics are appended and get a monitor.
run_tick ==
  /\ adc_pc = "done"
  /\ adc_result = "True"
  /\ ctl_available_metrics' =
       PickUpMetrics(connected_devices, ctl_available_metrics, sess_metrics)
  /\ metric_monitors' =
       MakeMonitors(metric_monitors,
                    SubSeq(ctl_available_metrics', Len(ctl_available_metrics) + 1,
                           Len(ctl_available_metrics')))
  /\ UNCHANGED <<device_types, device_names, metric_types, scanned, adc_pc,
                 adc_result, bound, connected_devices, sess_metrics, emitted,
                 OtherThanAdc>>

\* disconnect_devices (controller.py 341-356) ends monitoring: the sessions
\* are disconnected, every list is kept.
adc_shutdown ==
  /\ adc_pc = "done"
  /\ adc_pc' = "stopped"
  /\ UNCHANGED <<device_types, device_names, metric_types, scanned, adc_result,
                 bound, connected_devices, ctl_available_metrics, sess_metrics,
                 emitted, metric_monitors, OtherThanAdc>>

SessionNotificationAny ==
  \E c \in Classes, k \in {"heart_rate", "power", "cadence", "distance"} :
    session_notification(c, k)

NextAdc ==
  \/ adc_scan
  \/ adc_heart_rate
  \/ adc_trainer
  \/ adc_speed_cadence
  \/ adc_metrics
  \/ SessionNotificationAny
  \/ run_tick
  \/ adc_shutdown

SpecAdc == Init /\ [][NextAdc]_vars

\* The loop of run() sleeps refresh_rate seconds and goes round again
\* while running is set (controller.py 312, 334).
SpecAdcFair == Init /\ [][NextAdc]_vars /\ WF_vars(run_tick)

NoDuplicates(q) == \A i \in DOMAIN q, j \in DOMAIN q : q[i] = q[j] => i = j

(***************************************************************************)
(* listen_for_devices_connection (cli.py 360-392).  Times are whole        *)
(* seconds.                                                                *)
(***************************************************************************)
\* asyncio.sleep(2), cli.py 390
PollSeconds == 2

\* never
TimedOut_Never(e, t) == FALSE

\* "if elapsed > timeout: break" (372)
TimedOut(e, t) == e > t

\* more than one
ListenResult_MoreThanOne(count) == IF count > 1 THEN "True" ELSE "False"

\* "return connected_count > 0" (392)
ListenResult(count) == IF count > 0 THEN "True" ELSE "False"

\* The call (cli.py 194, 317): connected_count = 0, total_devices =
\* len(config.devices), start_time taken (362-366).
listen_start ==
  /\ lis_pc = "idle"
  /\ lis_pc' = "check"
  /\ total_devices' \in 0..MaxDevices
  /\ timeout' \in 0..MaxTimeout
  /\ elapsed' = 0
  /\ connected_count' = 0
  /\ UNCHANGED <<shutdown_event, lis_result, lis_connected, lis_attempts,
                 OtherThanListen>>

\* The head of the loop (368-379): the while condition, then the timeout
\* test; what passes both starts connect_configured_devices, anything else
\* leaves the loop and returns (392).
listen_check ==
  /\ lis_pc = "check"
  /\ IF connected_count < total_devices /\ ~shutdown_event /\ ~TimedOut(elapsed, timeout)
       THEN /\ lis_pc' = "attempt"
            /\ lis_attempts' = lis_attempts + 1
            /\ UNCHANGED lis_result
       ELSE /\ lis_pc' = "returned"
            /\ lis_result' = ListenResult(connected_count)
            /\ UNCHANGED lis_attempts
  /\ UNCHANGED <<total_devices, timeout, elapsed, connected_count, shutdown_event,
                 lis_connected, OtherThanListen>>

\* controller.connect_configured_devices: some of the configured devices
\* still missing connect; the answer is true when the connected set is not
\* empty, or when the call connected something.
ConnectConfigured(before, missing) ==
  { [connected |-> before \cup newly, answer |-> a] :
      newly \in SUBSET missing, a \in BOOLEAN }

ConnectAnswers(before, missing) ==
  { o \in ConnectConfigured(before, missing) :
      \/ o.answer = (o.connected # {})
      \/ o.answer = (o.connected # before) }

\* 381-387: the attempt returns; on a true answer connected_count is
\* re-read from controller.connected_devices and the loop is left when all
\* devices are connected.
listen_attempt ==
  /\ lis_pc = "attempt"
  /\ \E o \in ConnectAnswers(lis_connected, (1..total_devices) \ lis_connected),
        d \in 0..MaxAttemptTime :
       /\ lis_connected' = o.connected
       /\ elapsed' = elapsed + d
       /\ connected_count' = IF o.answer THEN Cardinality(o.connected)
                                         ELSE connected_count
       /\ IF o.answer /\ connected_count' >= total_devices
            THEN lis_pc' = "returned" /\ lis_result' = ListenResult(connected_count')
            ELSE lis_pc' = "sleep" /\ UNCHANGED lis_result
  /\ UNCHANGED <<total_devices, timeout, shutdown_event, lis_attempts,
                 OtherThanListen>>

\* 389-390: await asyncio.sleep(2)
listen_sleep ==
  /\ lis_pc = "sleep"
  /\ lis_pc' = "check"
  /\ elapsed' = elapsed + PollSeconds
  /\ UNCHANGED <<total_devices, timeout, connected_count, shutdown_event,
                 lis_result, lis_connected, lis_attempts, OtherThanListen>>

\* The signal handler sets the flag (cli.py 119-123), at any time.
shutdown_signal ==
  /\ lis_pc # "returned"
  /\ ~shutdown_event
  /\ shutdown_event' = TRUE
  /\ UNCHANGED <<lis_pc, total_devices, timeout, elapsed, connected_count,
                 lis_result, lis_connected, lis_attempts, OtherThanListen>>

NextListen ==
  \/ listen_start
  \/ listen_check
  \/ listen_attempt
  \/ listen_sleep
  \/ shutdown_signal

SpecListen == Init /\ [][NextListen]_vars

\* The event loop runs the coroutine whenever it can proceed, and an
\* attempt and the sleep end.
FairListen ==
  /\ WF_vars(listen_check)
  /\ WF_vars(listen_attempt)
  /\ WF_vars(listen_sleep)

SpecListenFair == SpecListen /\ FairListen

(***************************************************************************)
(* SpecWahoo: SpeedCadenceDevice.parse_wahoo_data (speed_cadence.py        *)
(* 192-228).                                                               *)
(***************************************************************************)
\* bytes of the frames tried, around the 200 RPM limit
WahooBytes == {0, 1, 90, 200, 201}

WahooFrames == UNION {[1..n -> WahooBytes] : n \in 0..3}

\* "if 0 <= value <= 200" (200, 213)
ReasonableCadence(value) == 0 <= value /\ value <= 200

\* The values the two blocks pass to data_callback, in order: data[0] as
\* one byte (198-209), then data[0:2] as uint16 (211-224).
ParseWahoo(data) ==
  LET byte == IF Len(data) >= 1 /\ ReasonableCadence(data[1])
                THEN <<data[1]>> ELSE <<>>
      word == IF Len(data) >= 2 /\ ReasonableCadence(FromBytesLE(Slice(data, 0, 2)))
                THEN <<FromBytesLE(Slice(data, 0, 2))>> ELSE <<>>
  IN  byte \o word

\* A notification of the Wahoo data characteristic (handle_generic_data
\* 162-163).
wahoo_notification(data) ==
  /\ wahoo_frame' = data
  /\ wahoo_forwarded' = ParseWahoo(data)
  /\ wahoo_current' = IF ParseWahoo(data) = <<>> THEN wahoo_current
                       ELSE Num(ParseWahoo(data)[Len(ParseWahoo(data))])
  /\ UNCHANGED OtherThanWahoo

NextWahoo == \E data \in WahooFrames : wahoo_notification(data)

SpecWahoo == Init /\ [][NextWahoo]_vars

(***************************************************************************)
(* SpecBike: TrainerDevice.__init__ (trainer.py 28-54) and                 *)
(* handle_indoor_bike_data (84-148).  A payload is the set of fields       *)
(* parse_indoor_bike_data finds in it.                                     *)
(***************************************************************************)
TrainerKinds == {"power", "speed", "cadence"}

\* the fields the handler reads of the parsed payload, in its order
BikeFields == <<"power", "speed", "cadence", "heart_rate", "distance">>

\* "self.metrics = metrics or ["power", "speed", "cadence"]" (43): None and
\* the empty list are both falsy
MetricsOrDefault(arg) == IF ~arg.given \/ arg.list = {} THEN TrainerKinds ELSE arg.list

trainer_init ==
  /\ tb_pc = "none"
  /\ tb_pc' = "ready"
  /\ tb_arg' \in {NoMetricsArg} \cup {[given |-> TRUE, list |-> m] : m \in SUBSET TrainerKinds}
  /\ tb_metrics' = MetricsOrDefault(tb_arg')
  /\ tb_available' = <<>>
  /\ UNCHANGED <<tb_fields, tb_forwarded, OtherThanBike>>

\* 98-105, 107-115, 117-124: forwarded when present and in self.metrics;
\* 127-134, 137-144: heart rate and distance forwarded when present
Forwards(field, metrics) == field \in TrainerKinds => field \in metrics

\* every forwarded kind is appended to available_metrics if not there
RECURSIVE AppendAllNew(_, _, _)
AppendAllNew(q, order, kinds) ==
  IF order = <<>> THEN q
  ELSE AppendAllNew(IF Head(order) \in kinds THEN AppendNew(q, Head(order)) ELSE q,
                    Tail(order), kinds)

trainer_bike_data(fields) ==
  /\ tb_pc = "ready"
  /\ tb_fields' = fields
  /\ tb_forwarded' = {f \in fields : Forwards(f, tb_metrics)}
  /\ tb_available' = AppendAllNew(tb_available, BikeFields, tb_forwarded')
  /\ UNCHANGED <<tb_pc, tb_arg, tb_metrics, OtherThanBike>>

NextBike ==
  \/ trainer_init
  \/ \E fields \in SUBSET Range(BikeFields) : trainer_bike_data(fields)

SpecBike == Init /\ [][NextBike]_vars

(***************************************************************************)
(* SpecFind: SpeedCadenceDevice.find_device (speed_cadence.py 68-152).  A  *)
(* discovered device is its name ("None" for no name) and the service      *)
(* UUIDs it advertises, as lower-case text.                                *)
(***************************************************************************)
\* CYCLING_SPEED_CADENCE (10) and WAHOO_SERVICE (16)
CscUuid == "00001816-0000-1000-8000-00805f9b34fb"
WahooUuid == "a026e005-0a7d-4ab3-97fa-f1500f9feb8b"

FdDevices == [name : {"None", "Wahoo CADENCE", "Garmin"}, uuids : SUBSET {CscUuid, WahooUuid}]

\* str.lower() of the names used
Lower(n) ==
  CASE n = "Wahoo CADENCE" -> "wahoo cadence"
    [] n = "Garmin" -> "garmin"
    [] OTHER -> n

\* "needle in text" for the texts used: the lower-cased names and the two
\* UUIDs, which are hexadecimal digits and dashes
Substring(needle, text) ==
  \/ needle = text
  \/ text = "wahoo cadence" /\ needle \in {"wahoo", "cadence"}

\* The device find_device returns.  With a device_name: the first device
\* whose name holds it, else None (98-113); the block at 116-122 needs a
\* device_name and is never reached.  Without: the first device
\* advertising the CSC service (125-133), else the first with "wahoo" in
\* one of its UUIDs (136-144), else the first with "wahoo" in its name
\* (147-152).
FindDevice(name, scan) ==
  LET Named(i) == scan[i].name # "None"
      byName == {i \in DOMAIN scan : Named(i) /\ Substring(Lower(name), Lower(scan[i].name))}
      byCsc == {i \in DOMAIN scan : CscUuid \in scan[i].uuids}
      byWahooUuid == {i \in DOMAIN scan : \E u \in scan[i].uuids : Substring("wahoo", u)}
      byWahooName == {i \in DOMAIN scan : Named(i) /\ Substring("wahoo", Lower(scan[i].name))}
  IN  IF name # "None" THEN FirstIndex(byName)
      ELSE IF byCsc # {} THEN FirstIndex(byCsc)
      ELSE IF byWahooUuid # {} THEN FirstIndex(byWahooUuid)
      ELSE FirstIndex(byWahooName)

sc_find_device(name, scan) ==
  /\ fd_name' = name
  /\ fd_scan' = scan
  /\ fd_found' = FindDevice(name, scan)
  /\ UNCHANGED OtherThanFind

NextFind ==
  \E name \in {"None", "wahoo", "Garmin"},
     scan \in {<<>>} \cup {<<a>> : a \in FdDevices} \cup (FdDevices \X FdDevices) :
    sc_find_device(name, scan)

SpecFind == Init /\ [][NextFind]_vars

(***************************************************************************)
(* SpecConnSig: the session of SpecConn while the user interrupts the      *)
(* program.  The signal handler (cli.py 119-123) sets shutdown_event; the  *)
(* session classes hold no reference to it.                                *)
(***************************************************************************)
\* SIGINT or SIGTERM while connect() scans, waits for the link or is about
\* to sleep its backoff
signal_during_connect ==
  /\ pc \in {"scan", "attempt", "link"}
  /\ shutdown_signal

SpecConnSig == InitC /\ [][NextConn \/ signal_during_connect]_vars

(***************************************************************************)
(* SpecSeq: the three branches of auto_discover_connect (controller.py     *)
(* 106-221) in time.  Each branch awaits its session's connect() in line,  *)
(* so the coroutine is at one branch at a time.                            *)
(***************************************************************************)
\* the order of the branches: 107, 132, 157
ConnectOrder == <<"heart_rate", "trainer", "speed_cadence">>

\* 98-104: the scan returned; the classes for which the selections find a
\* device
seq_scan ==
  /\ seq_pc = 0
  /\ seq_pc' = 1
  /\ seq_found' \in SUBSET Classes
  /\ UNCHANGED <<seq_clock, seq_state, seq_begun, OtherThanSeq>>

\* The coroutine reaches the branch of class c: with a device selected it
\* calls connect() and awaits it (124, 149, 210), else it goes on.
seq_begin_connect(c) ==
  /\ seq_pc \in DOMAIN ConnectOrder
  /\ ConnectOrder[seq_pc] = c
  /\ seq_state[c] = "pending"
  /\ IF c \in seq_found
       THEN /\ seq_state' = [seq_state EXCEPT ![c] = "connecting"]
            /\ seq_begun' = [seq_begun EXCEPT ![c] = seq_clock]
            /\ UNCHANGED seq_pc
       ELSE /\ seq_state' = [seq_state EXCEPT ![c] = "skipped"]
            /\ seq_pc' = seq_pc + 1
            /\ UNCHANGED seq_begun
  /\ UNCHANGED <<seq_clock, seq_found, OtherThanSeq>>

\* A second passes while a connect() is awaited (its scan, link-open
\* timeouts and backoff sleeps).
seq_tick ==
  /\ \E c \in Classes :
       seq_state[c] = "connecting" /\ seq_clock - seq_begun[c] < MaxConnectTime
  /\ seq_clock' = seq_clock + 1
  /\ UNCHANGED <<seq_pc, seq_found, seq_state, seq_begun, OtherThanSeq>>

\* connect() of class c returns; the coroutine goes on to the next branch.
seq_end_connect(c) ==
  /\ seq_state[c] = "connecting"
  /\ seq_state' = [seq_state EXCEPT ![c] = "done"]
  /\ seq_pc' = seq_pc + 1
  /\ UNCHANGED <<seq_clock, seq_found, seq_begun, OtherThanSeq>>

NextSeq ==
  \/ seq_scan
  \/ \E c \in Classes : seq_begin_connect(c)
  \/ seq_tick
  \/ \E c \in Classes : seq_end_connect(c)

SpecSeq == Init /\ [][NextSeq]_vars

(***************************************************************************)
(* SpecWebQ: web mode of the start command (cli.py 200-233) with           *)
(* broadcast_metrics (web/server.py 190-195).  A sample is the session     *)
(* that forwarded it and its number in the order of the callbacks.         *)
(***************************************************************************)
\* the item taken is the newest
QueueGet_Newest(q) == [item |-> q[Len(q)], rest |-> SubSeq(q, 1, Len(q) - 1)]

\* metric_queue.get() (208): asyncio.Queue hands out the oldest item
QueueGet(q) == [item |-> Head(q), rest |-> Tail(q)]

\* web_data_callback (218-227): with the flag unset the put coroutine is
\* handed to the event loop, which runs what it is handed in order.
web_data_callback(sess) ==
  /\ Len(wq_forwarded) < MaxSamples
  /\ LET sample == [session |-> sess, n |-> Len(wq_forwarded) + 1]
     IN  /\ wq_forwarded' = Append(wq_forwarded, sample)
         /\ wq_ready' = IF wq_shutdown THEN wq_ready ELSE Append(wq_ready, sample)
  /\ UNCHANGED <<metric_queue, wq_applied, wq_shutdown, OtherThanWebQ>>

\* The event loop runs the oldest put coroutine: metric_queue.put (221);
\* the queue has no size limit, so put does not wait.
loop_put ==
  /\ wq_ready # <<>>
  /\ metric_queue' = Append(metric_queue, Head(wq_ready))
  /\ wq_ready' = Tail(wq_ready)
  /\ UNCHANGED <<wq_forwarded, wq_applied, wq_shutdown, OtherThanWebQ>>

\* process_metric_queue (204-214): one consumer; get, then
\* broadcast_metrics calls web_server.update_metric (server.py 193-195),
\* then the next get.  A get already waiting when the flag is set may
\* still deliver.
process_metric_queue ==
  /\ metric_queue # <<>>
  /\ wq_applied' = Append(wq_applied, QueueGet(metric_queue).item)
  /\ metric_queue' = QueueGet(metric_queue).rest
  /\ UNCHANGED <<wq_forwarded, wq_ready, wq_shutdown, OtherThanWebQ>>

\* signal_handler (119-123)
wq_signal ==
  /\ ~wq_shutdown
  /\ wq_shutdown' = TRUE
  /\ UNCHANGED <<wq_forwarded, wq_ready, metric_queue, wq_applied, OtherThanWebQ>>

NextWebQ ==
  \/ \E sess \in {"trainer", "heart_rate"} : web_data_callback(sess)
  \/ loop_put
  \/ process_metric_queue
  \/ wq_signal

SpecWebQ == Init /\ [][NextWebQ]_vars

(***************************************************************************)
(* SpecCfg: peloterm/config.py.  A scalar of a dictionary or of a scan     *)
(* result is a Python string or None; a list is a sequence.                *)
(***************************************************************************)
Text(s) == [tag |-> "str", s |-> s]
PyNone == [tag |-> "none", s |-> ""]

\* str(x)
Str(x) == IF x.tag = "str" THEN x ELSE Text("None")

\* s.lower() for the texts used
LowerOf(s) ==
  CASE s = "Heart Rate" -> "heart rate"
    [] s = "Power" -> "power"
    [] s = "Speed" -> "speed"
    [] s = "Cadence" -> "cadence"
    [] s = "Power Output" -> "power output"
    [] s = "Speed/Cadence" -> "speed/cadence"
    [] OTHER -> s

\* s.title() for the lower-case texts used
TitleOf(s) ==
  CASE s = "heart rate" -> "Heart Rate"
    [] s = "heart_rate" -> "Heart_Rate"
    [] s = "power" -> "Power"
    [] s = "speed" -> "Speed"
    [] s = "cadence" -> "Cadence"
    [] s = "power output" -> "Power Output"
    [] OTHER -> s

\* METRIC_DISPLAY_NAMES (config.py 10-15), in the order of its items
METRIC_DISPLAY_NAMES ==
  << [k |-> "heart_rate", v |-> "Heart Rate"], [k |-> "power", v |-> "Power"],
     [k |-> "speed", v |-> "Speed"], [k |-> "cadence", v |-> "Cadence"] >>

\* SERVICE_TO_METRIC.get(service, [service.lower()]) (config.py 18-22, 167)
ServiceMetrics(service) ==
  CASE service = "Heart Rate" -> <<"heart_rate">>
    [] service = "Power" -> <<"power", "speed">>
    [] service = "Speed/Cadence" -> <<"speed", "cadence">>
    [] OTHER -> <<LowerOf(service)>>

\* METRIC_DISPLAY_NAMES.get(metric_name, metric_name.title()) (176)
DisplayNameOf(metric_name) ==
  IF DictHas(METRIC_DISPLAY_NAMES, metric_name)
    THEN DictGet(METRIC_DISPLAY_NAMES, metric_name)
    ELSE TitleOf(metric_name)

\* DEFAULT_COLORS.get(metric_name, 'white') (24-30, 180)
DefaultColor(metric_name) ==
  IF DictHas(METRIC_DISPLAY_NAMES, metric_name) THEN "red" ELSE "white"

\* DEFAULT_UNITS.get(metric_name, '') (33-38, 181)
DefaultUnit(metric_name) ==
  CASE metric_name = "heart_rate" -> "BPM"
    [] metric_name = "power" -> "W"
    [] metric_name = "speed" -> "km/h"
    [] metric_name = "cadence" -> "RPM"
    [] OTHER -> ""

\* DeviceConfig.to_dict (47-53)
DeviceToDict(dev) ==
  [name |-> Str(dev.name), address |-> Str(dev.address),
   services |-> dev.services]

\* MetricConfig.to_dict (65-73): the metric field is not written
MetricToDict(metric) ==
  [name |-> Str(metric.name), device |-> Str(metric.device),
   service |-> Str(metric.service), color |-> Str(metric.color),
   unit |-> Str(metric.unit)]

\* PelotermConfig.to_dict (111-116)
ToDict(config) ==
  [devices |-> [i \in DOMAIN config.devices |-> DeviceToDict(config.devices[i])],
   display |-> [i \in DOMAIN config.display |-> MetricToDict(config.display[i])]]

\* config.py 92-97: the first key of METRIC_DISPLAY_NAMES whose display
\* name is display_name, else display_name.lower()
MetricNameOf(display_name) ==
  LET hits == {i \in DOMAIN METRIC_DISPLAY_NAMES :
                 METRIC_DISPLAY_NAMES[i].v = display_name}
  IN  IF hits = {} THEN LowerOf(display_name)
      ELSE METRIC_DISPLAY_NAMES[FirstIndex(hits)].k

\* config.py 100-107
MetricFromDict(metric_data) ==
  [name |-> metric_data.name, device |-> metric_data.device,
   service |-> metric_data.service,
   metric |-> Text(MetricNameOf(metric_data.name.s)),
   color |-> metric_data.color, unit |-> metric_data.unit]

\* PelotermConfig.from_dict (82-109); DeviceConfig(**device_data) keeps the
\* three values as they are
FromDict(data) ==
  [devices |-> data.devices,
   display |-> [i \in DOMAIN data.display |-> MetricFromDict(data.display[i])]]

\* yaml.dump of a scalar (146): None is written as null, a string as
\* itself, in quotes when the bare text would be read as something else
YamlDump(x) ==
  IF x.tag = "none" THEN [text |-> "null", quoted |-> FALSE]
  ELSE [text |-> x.s, quoted |-> x.s \in {"null", ""}]

\* yaml.safe_load of a scalar (131)
YamlLoad(y) ==
  IF ~y.quoted /\ y.text \in {"null", ""} THEN PyNone ELSE Text(y.text)

YamlScalar(x) == YamlLoad(YamlDump(x))

\* save_config, then load_config of the same path, up to from_dict
\* (135-146, 130-131)
SavedAndLoaded(data) ==
  [devices |-> [i \in DOMAIN data.devices |->
                  [name |-> YamlScalar(data.devices[i].name),
                   address |-> YamlScalar(data.devices[i].address),
                   services |-> [j \in DOMAIN data.devices[i].services |->
                                   YamlScalar(data.devices[i].services[j])]]],
   display |-> [i \in DOMAIN data.display |->
                  [name |-> YamlScalar(data.display[i].name),
                   device |-> YamlScalar(data.display[i].device),
                   service |-> YamlScalar(data.display[i].service),
                   color |-> YamlScalar(data.display[i].color),
                   unit |-> YamlScalar(data.display[i].unit)]]]

\* every key counts as new
KeyProcessed_Never(display, dev_name, metric_name) == FALSE

\* "metric_key not in processed_metrics" (172-174): a key is added with
\* every entry appended, so the keys are those of the entries so far
KeyProcessed(display, dev_name, metric_name) ==
  \E i \in DOMAIN display :
    display[i].device = Str(dev_name) /\ display[i].metric = Text(metric_name)

\* config.py 170-182: the metrics of one service
RECURSIVE AddMetrics(_, _, _, _)
AddMetrics(display, dev, service, metrics) ==
  IF metrics = <<>> THEN display
  ELSE LET metric_name == Head(metrics)
           entry == [name |-> Text(DisplayNameOf(metric_name)),
                     device |-> Str(dev.name),
                     service |-> service,
                     metric |-> Text(metric_name),
                     color |-> Text(DefaultColor(metric_name)),
                     unit |-> Text(DefaultUnit(metric_name))]
       IN  AddMetrics(IF KeyProcessed(display, dev.name, metric_name)
                        THEN display ELSE Append(display, entry),
                      dev, service, Tail(metrics))

\* config.py 165-182: the services of one device
RECURSIVE AddServices(_, _, _)
AddServices(display, dev, svcs) ==
  IF svcs = <<>> THEN display
  ELSE AddServices(AddMetrics(display, dev, Head(svcs),
                              ServiceMetrics(Head(svcs).s)),
                   dev, Tail(svcs))

\* create_default_config_from_scan (148-184)
RECURSIVE CreateDefault(_, _)
CreateDefault(devs, config) ==
  IF devs = <<>> THEN config
  ELSE LET dev == Head(devs)
       IN  IF dev.services = <<>> THEN CreateDefault(Tail(devs), config)
           ELSE CreateDefault(Tail(devs),
                  [devices |-> Append(config.devices,
                                      [name |-> Str(dev.name),
                                       address |-> Str(dev.address),
                                       services |-> dev.services]),
                   display |-> AddServices(config.display, dev, dev.services)])

\* Service names a scan reports (controller.py 111, 136, 187-192), and one
\* in another spelling.
ScanServices == {"Heart Rate", "Power", "Speed/Cadence", "Cadence", "heart rate"}

ServiceLists ==
  {<<>>} \cup {<<Text(a)>> : a \in ScanServices}
         \cup {<<Text(a), Text(b)>> : a \in {"Power", "Speed/Cadence"}, b \in ScanServices}

\* Scan results (test_config.py 48-65): up to two devices, possibly of the
\* same name; the address tells them apart.
CfgScans ==
  LET First == [name : {Text("KICKR")}, address : {Text("A1")}, services : ServiceLists]
      Second == [name : {Text("KICKR"), Text("H10")}, address : {Text("A2")},
                 services : ServiceLists]
  IN  {<<>>} \cup {<<a>> : a \in First} \cup {<<a, b>> : a \in First, b \in Second}

\* Dictionaries as yaml.safe_load returns them for a configuration file
\* (test_config.py 15-45): a value left empty in the file is None.
CfgDicts ==
  LET Devices == [name : {Text("KICKR")}, address : {Text("A1"), PyNone},
                  services : {<<Text("Power")>>, <<>>}]
      Display == [name : {Text("Power Output"), Text("Heart Rate")},
                  device : {Text("KICKR")}, service : {Text("Power")},
                  color : {Text("red")}, unit : {Text("W"), Text(""), PyNone}]
  IN  [devices : {<<>>} \cup {<<d>> : d \in Devices},
       display : {<<>>} \cup {<<m>> : m \in Display}
                        \cup {<<m, n>> : m \in Display, n \in Display}]

cfg_from_scan(devs) ==
  /\ cfg_pc = "start"
  /\ cfg_pc' = "made"
  /\ cfg_input' = [kind |-> "scan", scan |-> devs, data |-> NoConfig]
  /\ cfg_config' = CreateDefault(devs, NoConfig)
  /\ UNCHANGED <<cfg_again, OtherThanCfg>>

cfg_from_dict(data) ==
  /\ cfg_pc = "start"
  /\ cfg_pc' = "made"
  /\ cfg_input' = [kind |-> "dict", scan |-> <<>>, data |-> data]
  /\ cfg_config' = FromDict(data)
  /\ UNCHANGED <<cfg_again, OtherThanCfg>>

\* from_dict(to_dict(c))
cfg_round_trip ==
  /\ cfg_pc = "made"
  /\ cfg_pc' = "read back"
  /\ cfg_again' = FromDict(ToDict(cfg_config))
  /\ UNCHANGED <<cfg_input, cfg_config, OtherThanCfg>>

\* save_config(c, path), then load_config(path)
cfg_save_load ==
  /\ cfg_pc = "made"
  /\ cfg_pc' = "loaded"
  /\ cfg_again' = FromDict(SavedAndLoaded(ToDict(cfg_config)))
  /\ UNCHANGED <<cfg_input, cfg_config, OtherThanCfg>>

NextCfg ==
  \/ \E devs \in CfgScans : cfg_from_scan(devs)
  \/ \E data \in CfgDicts : cfg_from_dict(data)
  \/ cfg_round_trip
  \/ cfg_save_load

SpecCfg == Init /\ [][NextCfg]_vars

(***************************************************************************)
(* SpecDebug: the debug log of a session (trainer.py 150-159,              *)
(* speed_cadence.py 308-313).                                              *)
(***************************************************************************)
\* the literal of "if len(self.debug_messages) > 100"
DebugCapacity == 100

\* the oldest message goes as soon as the log is full
LogAfter_AtCapacity(log, message) ==
  LET appended == Append(log, message)
  IN  IF Len(appended) >= DebugCapacity THEN Tail(appended) ELSE appended

\* append, then pop(0) when the log has more than 100 messages
LogAfter(log, message) ==
  LET appended == Append(log, message)
  IN  IF Len(appended) > DebugCapacity THEN Tail(appended) ELSE appended

\* add_debug_message; the print that follows changes nothing
add_debug_message(c) ==
  /\ dbg_added[c] < MaxMessages
  /\ dbg_added' = [dbg_added EXCEPT ![c] = @ + 1]
  /\ debug_messages' = [debug_messages EXCEPT ![c] = LogAfter(@, dbg_added[c] + 1)]
  /\ UNCHANGED OtherThanDebug

NextDebug == \E c \in DebugClasses : add_debug_message(c)

SpecDebug == Init /\ [][NextDebug]_vars

(***************************************************************************)
(* SpecWeb: WebServer (web/server.py 86-151).  websocket_endpoint runs     *)
(* once per client and update_loop once, all on one event loop: a          *)
(* coroutine runs alone from one await to the next.  A client is "new"     *)
(* before it connects, "replaying" in the loop of 95-103, "live" in        *)
(* receive_text (109), "broken" when its link is down and the endpoint has *)
(* not noticed yet, "gone" when the endpoint has ended.                    *)
(***************************************************************************)
HistoryMsg(id) == [kind |-> "history", id |-> id]
LiveMsg(id) == [kind |-> "live", id |-> id]

\* send_text succeeds on a link that is up
SendSucceeds(c) == ws_state[c] \in {"replaying", "live"}

\* websocket_endpoint 89-95: accept, add to active_connections, and with a
\* non-empty history enter the replay loop over the list object that is
\* self.metrics_history now.
ws_connect(c) ==
  /\ ws_state[c] = "new"
  /\ active_connections' = active_connections \cup {c}
  /\ ws_known' = [ws_known EXCEPT ![c] = metrics_history]
  /\ IF metrics_history # <<>>
       THEN /\ ws_state' = [ws_state EXCEPT ![c] = "replaying"]
            /\ ws_list' = [ws_list EXCEPT ![c] = metrics_history]
            /\ ws_shared' = [ws_shared EXCEPT ![c] = TRUE]
            /\ ws_pos' = [ws_pos EXCEPT ![c] = 1]
       ELSE /\ ws_state' = [ws_state EXCEPT ![c] = "live"]
            /\ UNCHANGED <<ws_list, ws_shared, ws_pos>>
  /\ UNCHANGED <<metrics_history, upd_pc, upd_msg, upd_size, upd_visited, upd_cur,
                 disconnected, ws_received, upd_stayed, tick_log, OtherThanWeb>>

\* websocket_endpoint 95-104: one send_text of the replay returns (an await,
\* followed every tenth entry by a sleep); after the last entry the
\* endpoint waits in receive_text.
ws_replay(c) ==
  /\ ws_state[c] = "replaying"
  /\ ws_received' = [ws_received EXCEPT ![c] = Append(@, HistoryMsg(ws_list[c][ws_pos[c]]))]
  /\ ws_pos' = [ws_pos EXCEPT ![c] = @ + 1]
  /\ ws_state' = [ws_state EXCEPT ![c] =
                    IF ws_pos[c] + 1 > Len(ws_list[c]) THEN "live" ELSE "replaying"]
  /\ UNCHANGED <<active_connections, metrics_history, ws_list, ws_shared, upd_pc,
                 upd_msg, upd_size, upd_visited, upd_cur, disconnected, ws_known,
                 upd_stayed, tick_log, OtherThanWeb>>

\* the client's link goes down; a send_text of the replay then fails and
\* the loop is left (101-103)
ws_drop(c) ==
  /\ ws_state[c] \in {"replaying", "live"}
  /\ ws_state' = [ws_state EXCEPT ![c] = "broken"]
  /\ UNCHANGED <<active_connections, metrics_history, ws_list, ws_shared, ws_pos,
                 upd_pc, upd_msg, upd_size, upd_visited, upd_cur, disconnected,
                 ws_received, ws_known, upd_stayed, tick_log, OtherThanWeb>>

\* websocket_endpoint 109-116: receive_text raises for a client that left
\* or whose link is down; the endpoint removes it and ends.
ws_disconnect(c) ==
  /\ ws_state[c] \in {"live", "broken"}
  /\ ws_state' = [ws_state EXCEPT ![c] = "gone"]
  /\ active_connections' = active_connections \ {c}
  /\ upd_stayed' = upd_stayed \ {c}
  /\ UNCHANGED <<metrics_history, ws_list, ws_shared, ws_pos, upd_pc, upd_msg,
                 upd_size, upd_visited, upd_cur, disconnected, ws_received, ws_known,
                 tick_log, OtherThanWeb>>

\* The for loop of 141-145 takes its next connection, with the set as it
\* is now: a set whose size changed since the loop began makes the
\* iterator raise RuntimeError, which line 149 catches, so line 148 is not
\* reached; an exhausted iterator ends the loop and line 148 removes the
\* clients in disconnected; else the next send_text is called.
LoopNext(msg, active, size, visited, failed, stayed) ==
  IF Cardinality(active) # size
    THEN /\ upd_pc' = "sleep"
         /\ upd_cur' = 0
         /\ active_connections' = active
         /\ tick_log' = [msg |-> msg, expected |-> {c \in stayed : SendSucceeds(c)},
                         failed |-> failed, removed |-> {}, kept |-> active]
  ELSE IF active \ visited = {}
    THEN /\ upd_pc' = "sleep"
         /\ upd_cur' = 0
         /\ active_connections' = active \ failed
         /\ tick_log' = [msg |-> msg, expected |-> {c \in stayed : SendSucceeds(c)},
                         failed |-> failed, removed |-> active \cap failed,
                         kept |-> active \ failed]
  ELSE /\ upd_pc' = "sending"
       /\ upd_cur' \in active \ visited
       /\ active_connections' = active
       /\ UNCHANGED tick_log

\* update_loop 123-143, with metrics to send: the entry is appended to
\* self.metrics_history, a list object a replay may be walking, the
\* attribute is then bound to a new list (135; no entry of the model is an
\* hour old), and the for loop begins.
upd_begin ==
  /\ upd_pc = "sleep"
  /\ upd_msg < MaxTicks
  /\ upd_msg' = upd_msg + 1
  /\ metrics_history' = Append(metrics_history, upd_msg + 1)
  /\ ws_list' = [c \in WebClients |->
                   IF ws_shared[c] THEN Append(ws_list[c], upd_msg + 1) ELSE ws_list[c]]
  /\ ws_shared' = [c \in WebClients |-> FALSE]
  /\ upd_size' = Cardinality(active_connections)
  /\ upd_visited' = {}
  /\ disconnected' = {}
  /\ upd_stayed' = active_connections
  /\ LoopNext(upd_msg + 1, active_connections, Cardinality(active_connections),
              {}, {}, active_connections)
  /\ UNCHANGED <<ws_state, ws_pos, ws_received, ws_known, OtherThanWeb>>

\* update_loop 142-145: the send_text in flight returns or raises, and the
\* for loop goes on.
upd_sent ==
  /\ upd_pc = "sending"
  /\ LET ok == SendSucceeds(upd_cur)
         failed == IF ok THEN disconnected ELSE disconnected \cup {upd_cur}
     IN  /\ ws_received' = IF ok THEN [ws_received EXCEPT ![upd_cur] = Append(@, LiveMsg(upd_msg))]
                           ELSE ws_received
         /\ disconnected' = failed
         /\ upd_visited' = upd_visited \cup {upd_cur}
         /\ LoopNext(upd_msg, active_connections, upd_size,
                     upd_visited \cup {upd_cur}, failed, upd_stayed)
  /\ UNCHANGED <<metrics_history, ws_state, ws_list, ws_shared, ws_pos, upd_msg,
                 upd_size, ws_known, upd_stayed, OtherThanWeb>>

NextWeb ==
  \/ \E c \in WebClients : ws_connect(c)
  \/ \E c \in WebClients : ws_replay(c)
  \/ \E c \in WebClients : ws_drop(c)
  \/ \E c \in WebClients : ws_disconnect(c)
  \/ upd_begin
  \/ upd_sent

SpecWeb == Init /\ [][NextWeb]_vars

(***************************************************************************)
(* SpecMon: one MetricMonitor (display.py 14-101).                         *)
(***************************************************************************)
\* values as the tests pass them (test_display.py 28-35)
MonitorValues == {80, 85, 90}

\* the newest value is put first
update_value_Prepend(value) ==
  /\ Len(mon_passed) < MaxHistory
  /\ mon_current_value' = value
  /\ mon_values' = <<value>> \o mon_values
  /\ mon_timestamps' = Append(mon_timestamps, mon_now)
  /\ mon_passed' = Append(mon_passed, value)
  /\ UNCHANGED <<mon_now, OtherThanMon>>

\* MetricMonitor.update_value (display.py 97-101)
update_value(value) ==
  /\ Len(mon_passed) < MaxHistory
  /\ mon_current_value' = value
  /\ mon_values' = Append(mon_values, value)
  /\ mon_timestamps' = Append(mon_timestamps, mon_now)
  /\ mon_passed' = Append(mon_passed, value)
  /\ UNCHANGED <<mon_now, OtherThanMon>>

\* time passes between calls
mon_tick ==
  /\ mon_now < MaxHistory
  /\ mon_now' = mon_now + 1
  /\ UNCHANGED <<mon_values, mon_timestamps, mon_current_value, mon_passed,
                 OtherThanMon>>

NextMon ==
  \/ \E value \in MonitorValues : update_value(value)
  \/ mon_tick

SpecMon == Init /\ [][NextMon]_vars

(***************************************************************************)
(* C1  Staleness policy: a read at time t after update_metric(k, v) at t0  *)
(* (no later update of k) returns 0 for cadence and the stored value for   *)
(* every other kind when t - t0 > stale_threshold, and the stored value    *)
(* for every kind, cadence included, when t - t0 <= stale_threshold.       *)
(***************************************************************************)
C1_StalenessPolicy ==
  dp_op = "get_processed_metrics" =>
    \A k \in DictKeys(last_completed) :
      LET t0 == DictGet(last_completed, k).time
          stored == DictGet(current_values, k)
      IN  /\ DictHas(processed_metrics, k)
          /\ DictGet(processed_metrics, k) =
               IF current_time - t0 > stale_threshold /\ k = "cadence"
                 THEN Num(0) ELSE stored

\* A read that finds cadence stale (reported 0 for a stored 26), power stale
\* (reported unchanged) and speed updated exactly stale_threshold ago.
C1_Witness ==
  /\ dp_op = "get_processed_metrics"
  /\ DictKeys(last_completed) = Kinds
  /\ current_time - DictGet(last_completed, "cadence").time > stale_threshold
  /\ current_time - DictGet(last_completed, "power").time > stale_threshold
  /\ current_time - DictGet(last_completed, "speed").time = stale_threshold
  /\ DictGet(current_values, "cadence") = Num(2600)
  /\ DictGet(processed_metrics, "cadence") = Num(0)
  /\ DictGet(processed_metrics, "power") = Num(2600)
  /\ DictGet(processed_metrics, "speed") = Num(2580)

(***************************************************************************)
(* C3  Last write wins per kind: the value held for k is the rounded value *)
(* of the most recently completed update_metric(k, .), its timestamp is    *)
(* that call's time, and a kind never updated holds nothing; so an update  *)
(* of another kind changes neither.                                        *)
(***************************************************************************)
C3_LastWriteWins ==
  /\ DictKeys(current_values) = DictKeys(last_completed)
  /\ DictKeys(last_update_time) = DictKeys(last_completed)
  /\ \A k \in DictKeys(last_completed) :
       LET call == DictGet(last_completed, k)
       IN  /\ DictGet(current_values, k) = RoundedValue(k, call.value)
           /\ DictGet(last_update_time, k) = call.time

\* cadence was written twice (26 at StartTime, then "abc" later), power once
\* in between: cadence holds the later write, power its own.
C3_Witness ==
  /\ dp_op = "update_metric"
  /\ DictHas(last_completed, "cadence") /\ DictHas(last_completed, "power")
  /\ current_values[1].k = "cadence"
  /\ DictGet(current_values, "cadence") = StrValue
  /\ DictGet(last_update_time, "cadence") > DictGet(last_update_time, "power")
  /\ DictGet(last_update_time, "power") > StartTime
  /\ DictGet(current_values, "power") = Num(2600)

(***************************************************************************)
(* C2  A read interleaved with update_metric from the other thread         *)
(* completes without error, and what it reports for each kind is what a    *)
(* read running alone would report before or after one of the updates,     *)
(* the first update of a kind included.                                    *)
(***************************************************************************)
C2_ReadCompletes == rd_pc # "raised"

\* Judged once the update in flight has returned, so that "after that
\* update" is among the call boundaries.
C2_NoTornRead ==
  rd_pc = "returned" /\ wr_pc = "idle" =>
    \A k \in Kinds : \E S \in dp_boundaries : Reported(k) = ReportOf(S, k, current_time)

C2_SafeConcurrentRead == C2_ReadCompletes /\ C2_NoTornRead

(***************************************************************************)
(* C4  connect() makes at most max_connection_attempts link-open attempts  *)
(* per call, has waited connection_retry_delay before every attempt after  *)
(* the first, and a call that used the whole budget without opening a link *)
(* has returned False.                                                     *)
(***************************************************************************)
AllAttemptsFailed ==
  /\ Len(attempt_log) = max_connection_attempts
  /\ \A i \in DOMAIN attempt_log : attempt_log[i].outcome # "ok"

C4_AttemptBudget ==
  /\ Len(attempt_log) <= max_connection_attempts
  /\ \A i \in DOMAIN attempt_log : i > 1 => attempt_log[i].backoff = connection_retry_delay
  /\ (pc = "done" /\ AllAttemptsFailed) => result = "False"

C4_Witness ==
  /\ cls = "speed_cadence"
  /\ pc = "done"
  /\ AllAttemptsFailed
  /\ attempt_log[2].backoff = connection_retry_delay
  /\ attempt_log[3].backoff = connection_retry_delay
  /\ result = "False"

(***************************************************************************)
(* C5  In every session class, a connect() whose first two link-opens time *)
(* out and whose third would succeed, with nothing else going wrong, ends  *)
(* Active: it returned True after exactly three attempts, the client's     *)
(* link is open with a notification enabled, and available_metrics is not  *)
(* empty.                                                                  *)
(***************************************************************************)
ThirdWouldSucceed ==
  /\ link_plan = <<"timeout", "timeout", "ok">>
  /\ Len(attempt_log) >= 1
  /\ ~other_fault

Active ==
  /\ result = "True"
  /\ client \in open_links
  /\ SubscriptionsOf(client) # {}

C5_ThirdAttemptActive ==
  (pc = "done" /\ disc_result = "none" /\ ThirdWouldSucceed) =>
    /\ Active
    /\ Len(attempt_log) = 3
    /\ available_metrics # <<>>

(***************************************************************************)
(* C6  connect() never lets an exception out to its caller.                *)
(***************************************************************************)
C6_ConnectNeverRaises == result # "raised"

(***************************************************************************)
(* C7  When connect() has returned False, no link opened during that call  *)
(* is still open.                                                          *)
(***************************************************************************)
C7_FailedConnectLeavesNoLink ==
  (pc = "done" /\ result = "False") => CallLinks = {}

(***************************************************************************)
(* C8  disconnect() returns without raising and leaves the session with no *)
(* open link.                                                              *)
(***************************************************************************)
C8_DisconnectReleases ==
  disc_result # "none" => (disc_result = "returned" /\ open_links = {})

(***************************************************************************)
(* C9  disconnect_devices does not raise when the disconnect of a session  *)
(* raises, and when the program leaves shutdown every other disconnect it  *)
(* started has run to completion.                                          *)
(***************************************************************************)
C9_DisconnectErrorsSwallowed ==
  /\ dd_pc # "raised"
  /\ dd_caller = "exited" => \A s \in CallSites : Unfinished(s) = {}

(***************************************************************************)
(* C10  A call of disconnect_devices that waits for its sessions comes to  *)
(* an end, whether or not a session's disconnect ever completes.           *)
(***************************************************************************)
C10_ShutdownBounded == (dd_pc = "gather") ~> (dd_pc # "gather")

(***************************************************************************)
(* C17  In a run of well-formed CSC payloads with the cadence flag, every  *)
(* payload after the first whose event time differs from the previous      *)
(* payload's yields the cadence of the two raw counter differences taken   *)
(* modulo 65536, however often the counters have wrapped.                  *)
(***************************************************************************)
C17_WrapCorrectCadence ==
  (csc_clean /\ csc_kind = "well" /\ csc_prev.tag = "raw"
     /\ csc_cur.time # csc_prev.time) =>
    csc_emitted = Num(CadenceOf((csc_cur.revs - csc_prev.revs) % 65536,
                                (csc_cur.time - csc_prev.time) % 65536))

(***************************************************************************)
(* C18  The first CSC payload a session receives after a connect, a        *)
(* reconnect of the same object included, yields no cadence sample.        *)
(***************************************************************************)
C18_FirstPayloadNoCadence ==
  csc_since_connect = 1 => csc_emitted = NoneValue

(***************************************************************************)
(* C20  A truncated CSC payload is dropped: the handler does not raise,    *)
(* forwards no cadence for it, and a later well-formed payload yields the  *)
(* cadence it would have yielded had the truncated ones never arrived.     *)
(***************************************************************************)
C20_TruncatedDropped ==
  /\ ~csc_raised
  /\ csc_kind = "truncated" => csc_emitted = NoneValue
  /\ csc_kind = "well" => csc_emitted = shadow_emitted

(***************************************************************************)
(* C19  The heart-rate handler raises for no payload, and forwards no      *)
(* sample for a payload too short to hold the value its flags select.      *)
(***************************************************************************)
C19_HrHandlerTotal ==
  /\ ~hr_raised
  /\ Len(hr_payload) < HrNeeded(hr_payload) => hr_emitted = NoneValue

(***************************************************************************)
(* C11  auto_discover_connect returns True exactly when connected_devices  *)
(* is not empty at return, whether or not a connected session has emitted  *)
(* a metric yet.                                                           *)
(***************************************************************************)
C11_TrueIffConnected ==
  adc_pc = "done" => (adc_result = "True" <=> connected_devices # <<>>)

(***************************************************************************)
(* C14  No step removes a kind from a session's available_metrics or from  *)
(* the controller's, and no kind is in either list twice.                  *)
(***************************************************************************)
MetricsGrow ==
  /\ Range(ctl_available_metrics) \subseteq Range(ctl_available_metrics')
  /\ NoDuplicates(ctl_available_metrics')
  /\ \A c \in Classes :
       /\ Range(sess_metrics[c]) \subseteq Range(sess_metrics'[c])
       /\ NoDuplicates(sess_metrics'[c])

C15_ListedKindsWereEmitted ==
  \A k \in Range(ctl_available_metrics) : \E c \in Classes : k \in emitted[c]

(***************************************************************************)
(* C16  No scanned device is bound to the sessions of two classes.         *)
(***************************************************************************)
C16_OneSessionPerDevice ==
  \A c1 \in Classes, c2 \in Classes :
    (c1 # c2 /\ bound[c1] # 0) => bound[c1] # bound[c2]

(***************************************************************************)
(* C12  A connection attempt starts only when fewer than all configured    *)
(* devices are connected, the cancellation flag is unset and the elapsed   *)
(* time does not exceed the timeout; the head of the loop otherwise        *)
(* returns, and once one of the three ends the listening the function      *)
(* starts no attempt and returns.                                          *)
(***************************************************************************)
MayAttempt ==
  /\ Cardinality(lis_connected) < total_devices
  /\ ~shutdown_event
  /\ elapsed <= timeout

Listening == lis_pc \in {"check", "attempt", "sleep"}

AttemptsGuarded ==
  /\ lis_attempts' # lis_attempts => MayAttempt
  /\ (lis_pc = "check" /\ lis_pc' # "check" /\ ~MayAttempt) => lis_pc' = "returned"

C12_AttemptsOnlyWhileListening ==
  /\ [][AttemptsGuarded]_vars
  /\ ((Listening /\ ~MayAttempt) ~> (lis_pc = "returned"))

C12_Witness ==
  /\ lis_pc = "returned"
  /\ lis_attempts >= 2
  /\ elapsed > timeout
  /\ ~shutdown_event
  /\ Cardinality(lis_connected) < total_devices

(***************************************************************************)
(* C13  listen_for_devices_connection returns True exactly when at least   *)
(* one configured device is connected when it returns; with one of two     *)
(* devices connected and no cancellation it returns after the timeout,     *)
(* with True.                                                              *)
(***************************************************************************)
OneOfTwo ==
  /\ lis_pc = "returned"
  /\ total_devices = 2
  /\ Cardinality(lis_connected) = 1
  /\ ~shutdown_event

C13_TrueIffSomeConnected ==
  /\ lis_pc = "returned" => (lis_result = "True" <=> lis_connected # {})
  /\ OneOfTwo => (elapsed > timeout /\ lis_result = "True")

C13_Witness == OneOfTwo /\ lis_result = "True" /\ lis_attempts >= 2

(***************************************************************************)
(* C21  For a Heart Rate Measurement of at least 3 bytes the forwarded     *)
(* heart rate is byte 1 when bit 0 of the flags is clear and byte 1 +      *)
(* 256 * byte 2 when it is set, whatever the other flag bits.              *)
(***************************************************************************)
C21_HeartRateDecoding ==
  Len(hr_payload) >= 3 =>
    /\ ~hr_raised
    /\ hr_emitted = Num(IF hr_payload[1] % 2 = 0
                          THEN hr_payload[2]
                          ELSE hr_payload[2] + 256 * hr_payload[3])
    /\ current_value = hr_emitted

C21_Witness ==
  /\ Len(hr_payload) = 4
  /\ hr_payload[1] = 17
  /\ hr_payload[2] = 72
  /\ hr_payload[3] = 1
  /\ hr_emitted = Num(328)

(***************************************************************************)
(* C22  parse_wahoo_data forwards at most one cadence sample per frame,    *)
(* and every forwarded value lies in [0, 200].                             *)
(***************************************************************************)
C22_OneSamplePerFrame ==
  /\ Len(wahoo_forwarded) <= 1
  /\ \A i \in DOMAIN wahoo_forwarded : wahoo_forwarded[i] \in 0..200

(***************************************************************************)
(* C23  A trainer session constructed with the metric subset M of power,   *)
(* speed, cadence forwards none of the three outside M and adds none of    *)
(* them outside M to its available_metrics.                                *)
(***************************************************************************)
C23_OnlyConfiguredMetrics ==
  (tb_pc = "ready" /\ tb_arg.given) =>
    /\ tb_forwarded \cap TrainerKinds \subseteq tb_arg.list
    /\ Range(tb_available) \cap TrainerKinds \subseteq tb_arg.list

(***************************************************************************)
(* C24  With no target name, a scan that holds a device named with "wahoo" *)
(* and "cadence" and another device advertising the CSC service makes      *)
(* find_device return the vendor-named device, in either scan order.       *)
(***************************************************************************)
VendorNamed(d) ==
  /\ d.name # "None"
  /\ Substring("wahoo", Lower(d.name))
  /\ Substring("cadence", Lower(d.name))

C24_VendorNameBeforeService ==
  ( /\ fd_name = "None"
    /\ \E i \in DOMAIN fd_scan, j \in DOMAIN fd_scan :
         /\ i # j
         /\ VendorNamed(fd_scan[i])
         /\ ~VendorNamed(fd_scan[j])
         /\ CscUuid \in fd_scan[j].uuids )
  => (fd_found # 0 /\ VendorNamed(fd_scan[fd_found]))

(***************************************************************************)
(* C25  With no target name and no match by vendor name or CSC service, a  *)
(* nameless device advertising only the Wahoo a026e0 service is returned.  *)
(***************************************************************************)
C25_VendorServicePrefix ==
  ( /\ fd_name = "None"
    /\ \A i \in DOMAIN fd_scan :
         ~VendorNamed(fd_scan[i]) /\ CscUuid \notin fd_scan[i].uuids
    /\ \E i \in DOMAIN fd_scan :
         fd_scan[i].name = "None" /\ fd_scan[i].uuids = {WahooUuid} )
  => (fd_found # 0 /\ WahooUuid \in fd_scan[fd_found].uuids)

(***************************************************************************)
(* C26  A speed/cadence session subscribes to other notify/indicate        *)
(* characteristics only when CSC Measurement could not be subscribed: on   *)
(* no link are both CSC Measurement and another characteristic subscribed. *)
(***************************************************************************)
C26_FallbackOnlyWithoutPrimary ==
  \A c \in 1..clients_made :
    <<c, "csc">> \in subscriptions => <<c, "other">> \notin subscriptions

(***************************************************************************)
(* C27  connect() of a speed/cadence or trainer session returns True only  *)
(* with a subscription on the link its successful attempt opened, and the  *)
(* session's set of subscribed characteristics is at all times the set of  *)
(* subscriptions active on its current link.                               *)
(***************************************************************************)
ReturnsTrue == result # "True" /\ result' = "True"

\* a link the peripheral dropped takes its subscriptions with it
SubscribedOnOwnLink ==
  (cls \in {"speed_cadence", "trainer"} /\ ReturnsTrue) =>
    /\ client' > call_first'
    /\ client' \in open_links' => \E sub \in subscriptions' : sub[1] = client'

RecordedAreActive ==
  cls = "speed_cadence" =>
    active_notifications = {sub[2] : sub \in SubscriptionsOf(client)}

C27_SubscriptionsOfCurrentLink ==
  /\ [][SubscribedOnOwnLink]_vars
  /\ []RecordedAreActive

(***************************************************************************)
(* C29  Once the shutdown signal is set during a connect(), the session    *)
(* starts no further connect attempt (it creates no new client).           *)
(***************************************************************************)
NoAttemptAfterSignal == shutdown_event => clients_made' = clients_made

C29_SignalStopsAttempts == [][NoAttemptAfterSignal]_vars

(***************************************************************************)
(* C28  The sessions' connects are scheduled independently: a session      *)
(* whose device was selected and whose connect() has not been called can   *)
(* have it called while another session's connect() is running, and so    *)
(* every connect() is called when the scan returned.                       *)
(***************************************************************************)
C28_ConnectsIndependent ==
  \A c \in seq_found :
    /\ (seq_state[c] = "pending" /\ \E d \in Classes : seq_state[d] = "connecting")
         => ENABLED seq_begin_connect(c)
    /\ seq_state[c] # "pending" => seq_begun[c] = 0

(***************************************************************************)
(* C30  In web mode update_metric is applied to the samples of one session *)
(* in the order the session's callback received them, each at most once.   *)
(***************************************************************************)
C30_SessionOrderKept ==
  \A i \in DOMAIN wq_applied, j \in DOMAIN wq_applied :
    (i < j /\ wq_applied[i].session = wq_applied[j].session)
      => wq_applied[i].n < wq_applied[j].n

C30_Witness ==
  /\ Len(wq_applied) = 3
  /\ wq_applied[1].session = "trainer"
  /\ wq_applied[2].session = "heart_rate"
  /\ wq_applied[3].session = "trainer"

(***************************************************************************)
(* C31  While the loop of run() is running, a kind in a connected          *)
(* session's available_metrics is eventually in the controller's           *)
(* available_metrics and, when it is a key of METRIC_CONFIG, has a         *)
(* monitor.                                                                *)
(***************************************************************************)
Monitoring == adc_pc = "done" /\ adc_result = "True"

PickedUp(k) ==
  /\ k \in Range(ctl_available_metrics)
  /\ k \in METRIC_CONFIG => k \in metric_monitors

C31_NewKindsPickedUp ==
  \A c \in Classes, k \in {"heart_rate", "power", "cadence", "distance"} :
    (Monitoring /\ c \in Range(connected_devices)
       /\ k \in Range(GetAvailableMetrics(c, sess_metrics)))
      ~> (PickedUp(k) \/ ~Monitoring)

C31_Witness ==
  /\ Monitoring
  /\ Range(sess_metrics["trainer"]) = {"power", "cadence", "distance"}
  /\ Range(ctl_available_metrics) = {"power", "cadence", "distance"}
  /\ metric_monitors = {"power", "cadence"}

(***************************************************************************)
(* C37  With metric_types given, the controller's available_metrics and    *)
(* metric_monitors hold only kinds listed in metric_types.                 *)
(***************************************************************************)
C37_OnlyRequestedKinds ==
  metric_types # {} =>
    /\ Range(ctl_available_metrics) \subseteq metric_types
    /\ metric_monitors \subseteq metric_types

(***************************************************************************)
(* C32  update_metric never raises, for every kind and value; a            *)
(* non-numeric value is stored unchanged and the kind's timestamp is the   *)
(* time of the call.                                                       *)
(***************************************************************************)
C32_UpdateTotal ==
  dp_op = "update_metric" =>
    /\ dp_raised = "no"
    /\ \A k \in DictKeys(last_completed) :
         LET call == DictGet(last_completed, k)
         IN  call.value.tag # "num" =>
               /\ DictGet(current_values, k) = call.value
               /\ DictGet(last_update_time, k) = call.time

(***************************************************************************)
(* C33  get_processed_metrics changes neither the stored values nor the    *)
(* stored timestamps, and a call right after another, at the same instant  *)
(* and with no update_metric in between, returns the same mapping.         *)
(***************************************************************************)
ReadOnlyAndIdempotent ==
  dp_op' = "get_processed_metrics" =>
    /\ current_values' = current_values
    /\ last_update_time' = last_update_time
    /\ dp_op = "get_processed_metrics" => processed_metrics' = processed_metrics

C33_ReadOnlyIdempotent == [][ReadOnlyAndIdempotent]_vars

\* A read has returned a mapping that differs from the store (stale cadence
\* reported 0 for a stored 26); the next call starts from here.
C33_Witness ==
  /\ dp_op = "get_processed_metrics"
  /\ DictKeys(current_values) = Kinds
  /\ DictGet(current_values, "cadence") = Num(2600)
  /\ DictGet(processed_metrics, "cadence") = Num(0)
  /\ DictGet(current_values, "speed") = StrValue \/ DictGet(current_values, "power") = NoneValue

(***************************************************************************)
(* C34  MetricMonitor: values is the sequence of the values passed to      *)
(* update_value in call order, timestamps is as long as values, and        *)
(* current_value is the last value passed, 0 before the first call.        *)
(***************************************************************************)
C34_MonitorHistory ==
  /\ mon_values = mon_passed
  /\ Len(mon_timestamps) = Len(mon_values)
  /\ mon_current_value = IF mon_passed = <<>> THEN 0 ELSE mon_passed[Len(mon_passed)]

C34_Witness ==
  /\ mon_passed = <<80, 85, 90>>
  /\ mon_timestamps[1] < mon_timestamps[3]

(***************************************************************************)
(* C35  Round trip: for a configuration c made by from_dict or by          *)
(* create_default_config_from_scan, from_dict(to_dict(c)) equals c in      *)
(* every field and in the same order, and so does load_config after        *)
(* save_config.                                                            *)
(***************************************************************************)
C35_ConfigRoundTrip ==
  cfg_pc \in {"read back", "loaded"} => cfg_again = cfg_config

(***************************************************************************)
(* C36  create_default_config_from_scan: devices holds the scanned devices *)
(* with a service, in scan order; display holds exactly one entry per      *)
(* (device name, metric) pair those devices provide, attributed to the     *)
(* first service providing the metric in the list of the first such        *)
(* device; a device without services is in neither list.                   *)
(***************************************************************************)
HasServices(dev) == dev.services # <<>>

Providing(dev, metric_name) ==
  {j \in DOMAIN dev.services : metric_name \in Range(ServiceMetrics(dev.services[j].s))}

C36_DefaultConfigFromScan ==
  cfg_input.kind = "scan" =>
    LET kept == SelectSeq(cfg_input.scan, HasServices)
        display == cfg_config.display
        Key(i) == <<display[i].device, display[i].metric.s>>
        Pairs == {<<kept[i].name, m>> : i \in DOMAIN kept,
                    m \in {"heart_rate", "power", "speed", "cadence", "heart rate"}}
        Provided == {q \in Pairs : \E i \in DOMAIN kept :
                       kept[i].name = q[1] /\ Providing(kept[i], q[2]) # {}}
    IN  /\ cfg_config.devices = kept
        /\ {Key(i) : i \in DOMAIN display} = Provided
        /\ \A i \in DOMAIN display, j \in DOMAIN display : Key(i) = Key(j) => i = j
        /\ \A i \in DOMAIN display :
             LET owners == {n \in DOMAIN kept :
                              /\ kept[n].name = display[i].device
                              /\ Providing(kept[n], display[i].metric.s) # {}}
                 owner == kept[FirstIndex(owners)]
             IN  display[i].service =
                   owner.services[FirstIndex(Providing(owner, display[i].metric.s))]

\* The scan of the tests with a second device of the same name: speed comes
\* from Power, not from Speed/Cadence, and the second device's cadence is
\* attributed to the first.
C36_Witness ==
  /\ cfg_pc = "made"
  /\ cfg_input.kind = "scan"
  /\ Len(cfg_input.scan) = 2
  /\ cfg_input.scan[1].services = <<Text("Power"), Text("Speed/Cadence")>>
  /\ cfg_input.scan[2].name = Text("KICKR")
  /\ cfg_input.scan[2].services = <<Text("Cadence")>>
  /\ Len(cfg_config.devices) = 2
  /\ Len(cfg_config.display) = 3
  /\ cfg_config.display[2].service = Text("Power")
  /\ cfg_config.display[3].service = Text("Speed/Cadence")

(***************************************************************************)
(* C38  After every add_debug_message the log of a session holds at most   *)
(* 100 messages: the most recent 100 (all of them while fewer arrived),    *)
(* in arrival order.                                                       *)
(***************************************************************************)
C38_DebugLogBounded ==
  \A c \in DebugClasses :
    LET log == debug_messages[c]
        held == IF dbg_added[c] < 100 THEN dbg_added[c] ELSE 100
    IN  /\ Len(log) = held
        /\ \A i \in DOMAIN log : log[i] = dbg_added[c] - held + i

C38_Witness ==
  /\ dbg_added["trainer"] = 102
  /\ debug_messages["trainer"][1] = 3
  /\ debug_messages["trainer"][100] = 102
  /\ dbg_added["speed_cadence"] = 100
  /\ debug_messages["speed_cadence"][1] = 1

(***************************************************************************)
(* C39  A web client that connects while metrics_history is not empty      *)
(* receives every entry that existed then, in timestamp order, before any  *)
(* live broadcast: no message of update_loop reaches it while the replay   *)
(* is running.                                                             *)
(***************************************************************************)
C39_ReplayBeforeLive ==
  \A c \in WebClients :
    /\ ws_state[c] = "replaying" =>
         \A i \in DOMAIN ws_received[c] : ws_received[c][i].kind = "history"
    /\ ws_state[c] = "live" =>
         /\ Len(ws_received[c]) >= Len(ws_known[c])
         /\ \A i \in DOMAIN ws_known[c] : ws_received[c][i] = HistoryMsg(ws_known[c][i])

(***************************************************************************)
(* C40  In a pass of update_loop with metrics to send, every client that   *)
(* is in active_connections all through the pass and whose link is up has  *)
(* received the message of the pass exactly once when the pass ends,       *)
(* whatever the other clients do meanwhile; the clients whose send failed  *)
(* are removed, and no others.                                             *)
(***************************************************************************)
C40_BroadcastReachesAll ==
  tick_log.msg > 0 =>
    /\ tick_log.removed \subseteq tick_log.failed
    /\ tick_log.kept \cap tick_log.failed = {}
    /\ \A c \in tick_log.expected :
         Cardinality({i \in DOMAIN ws_received[c] :
                        ws_received[c][i] = LiveMsg(tick_log.msg)}) = 1

====
